---- MODULE Spec2Model ----
(***************************************************************************)
(* Model of the multi-backend core of Lucie's python-ai service:           *)
(*   - the backend capability registry (config/*_config.py),               *)
(*   - the backend selector  AIOrchestrator._select_provider_and_model,    *)
(*   - the dispatcher        AIOrchestrator.generate_response and          *)
(*                           AIOrchestrator.generate_multi_provider_response*)
(*   - the entry of KnowledgeConsolidator.consolidate_responses.           *)
(*                                                                         *)
(* The orchestrator reaches its adapters through self.adapters by duck     *)
(* typing.  A backend call is therefore modelled by the outcomes of the    *)
(* generation interface: a normal result, an error-marked result, or a     *)
(* raised exception.  The adapters of this repository declare no           *)
(* multimodal_data parameter, so with them the call of line 232 raises     *)
(* TypeError; the other two outcomes are those of an adapter that accepts  *)
(* the arguments it is called with.                                        *)
(***************************************************************************)
EXTENDS Integers, Sequences, FiniteSets, TLC

(***************************************************************************)
(* Bounds of the model.                                                    *)
(***************************************************************************)
MaxRegistered == 2

MaxRequested == 2

(***************************************************************************)
(* Values.                                                                 *)
(***************************************************************************)
\* Python's None for an absent provider / model.
None == "None"

\* Marker for an exception that leaves the expression being evaluated.
Raised == <<"raise">>

\* Marker for "this rule did not return" inside the selector.
NoMatch == <<>>

\* ai_orchestrator.py:101, the providers the constructor knows.
available_providers == <<"ollama", "openai", "anthropic", "mistral", "mathgpt">>

Providers == {available_providers[i] : i \in 1..Len(available_providers)}

\* Task types used as inputs: the four keys of the task table, the default
\* task type, one task only some configs know, and one no config knows.
TaskTypes == {"general_chat", "math", "complex_reasoning", "analysis", "code", "code_generation", "poetry"}

\* Explicit model names used as inputs: catalogued by ollama, by anthropic,
\* by mistral and ollama's recommendation, and by nobody.
ModelNames == {"llama3:8b", "claude-2.1", "mistral:7b", "my-custom-model"}

\* Outcomes of one adapter.generate_response call.
Outcomes == {"ok", "error_marked", "raise"}

\* Consolidation strategies used as inputs.
Strategies == {"weight_by_confidence", "highest_confidence"}

\* Task types used by multi-provider requests.
MultiTasks == {"general_chat", "math"}

\* Providers a multi-provider request may name.
RequestableProviders == {"ollama", "anthropic", "mathgpt"}

VARIABLES
    adapters,       \* self.adapters: registered providers, in registration order
    pc,             \* position of the multi-provider request
    sel,            \* value returned by the last _select_provider_and_model call
    callArgs,       \* arguments of the last selector / generate_response call
    result,         \* value returned by the last generate_response call
    req,            \* arguments of the running multi-provider request
    idx,            \* loop position in providers_to_use
    responses,      \* the list `responses` of generate_multi_provider_response
    invoked,        \* per request position: number of backend calls started
    raisedAt,       \* request positions whose call raised
    outstanding,    \* request positions whose backend call has not settled
    maxOutstanding, \* largest number of calls outstanding at once in this request
    multiResult,    \* value returned by generate_multi_provider_response
    stepLog,        \* evaluation / consolidation steps run by this request, in order
    consCall,       \* arguments of the last consolidate_responses call
    consResult,     \* value returned by the last consolidate_responses call
    evalCall,       \* arguments of the last ResponseEvaluator call
    evalResult      \* value returned by the last ResponseEvaluator call

vars == <<adapters, pc, sel, callArgs, result, req, idx, responses, invoked, raisedAt, outstanding, maxOutstanding, multiResult,
          stepLog, consCall, consResult, evalCall, evalResult>>

\* The variables of the orchestrator.
orchVars == <<adapters, pc, sel, callArgs, result, req, idx, responses, invoked, raisedAt, outstanding, maxOutstanding, multiResult, stepLog>>

\* The variables of a direct KnowledgeConsolidator call.
consVars == <<consCall, consResult>>

\* The variables of a direct ResponseEvaluator call.
evalVars == <<evalCall, evalResult>>

(***************************************************************************)
(* Sequence helpers.                                                       *)
(***************************************************************************)
Range(s) == {s[i] : i \in 1..Len(s)}

InjectiveSeqs(S, n) == {s \in UNION {[1..k -> S] : k \in 0..n} : \A i, j \in DOMAIN s : s[i] = s[j] => i = j}

SeqsUpTo(S, n) == UNION {[1..k -> S] : k \in 0..n}

\* Python truthiness of an optional string argument.
Truthy(x) == x # None

Registered(p) == p \in Range(adapters)


(***************************************************************************)
(* Backend capability registry: per-task recommended model lists.          *)
(***************************************************************************)
\* OllamaConfig.task_model_mappings
OllamaTaskModels ==
    "code_generation" :> <<"codellama:13b", "codegemma:7b", "wizardcoder:13b">> @@
    "general_chat" :> <<"mistral:7b", "llama3:8b", "gemma:7b">> @@
    "multilingual" :> <<"nous-hermes:7b", "aya:8b", "dolphin-mixtral:8x7b">> @@
    "reasoning" :> <<"mixtral:8x7b", "llama3:70b", "wizard:13b">> @@
    "lightweight" :> <<"phi3:mini", "tinyllama:1.1b", "qwen:0.5b">>

\* OllamaConfig.model_categories["general"]
OllamaGeneral == <<"llama3:8b", "llama3:70b", "mistral:7b", "mixtral:8x7b", "gemma:7b">>

\* OpenAIConfig.task_model_mappings
OpenAITaskModels ==
    "code_generation" :> <<"gpt-4-turbo-preview", "gpt-4o", "gpt-4-0125-preview">> @@
    "general_chat" :> <<"gpt-3.5-turbo", "gpt-4o">> @@
    "creative_writing" :> <<"gpt-4-turbo-preview", "gpt-4o">> @@
    "reasoning" :> <<"gpt-4-0125-preview", "gpt-4o", "gpt-4-turbo-preview">> @@
    "math" :> <<"gpt-4-0125-preview", "gpt-4o">> @@
    "analysis" :> <<"gpt-4-0125-preview", "gpt-4o">> @@
    "vision" :> <<"gpt-4-vision-preview">>

\* OpenAIConfig.model_categories["general"]
OpenAIGeneral == <<"gpt-3.5-turbo", "gpt-4-turbo-preview", "gpt-4o">>

\* AnthropicConfig.task_model_mappings
AnthropicTaskModels ==
    "code_generation" :> <<"claude-3-opus-20240229", "claude-3-sonnet-20240229">> @@
    "general_chat" :> <<"claude-3-sonnet-20240229", "claude-3-haiku-20240307">> @@
    "creative_writing" :> <<"claude-3-opus-20240229", "claude-3-sonnet-20240229">> @@
    "reasoning" :> <<"claude-3-opus-20240229">> @@
    "math" :> <<"claude-3-opus-20240229">> @@
    "analysis" :> <<"claude-3-opus-20240229", "claude-3-sonnet-20240229">> @@
    "complex_reasoning" :> <<"claude-3-opus-20240229">> @@
    "vision" :> <<"claude-3-opus-20240229", "claude-3-sonnet-20240229", "claude-3-haiku-20240307">> @@
    "lightweight" :> <<"claude-3-haiku-20240307">>

\* AnthropicConfig.model_categories["general"]
AnthropicGeneral == <<"claude-3-sonnet-20240229", "claude-3-haiku-20240307", "claude-3-opus-20240229">>

\* MistralConfig.task_model_mappings
MistralTaskModels ==
    "code_generation" :> <<"mistral-large-latest", "mistral-medium">> @@
    "general_chat" :> <<"mistral-medium", "mistral-small">> @@
    "creative_writing" :> <<"mistral-large-latest", "mistral-medium">> @@
    "reasoning" :> <<"mistral-large-latest">> @@
    "math" :> <<"mistral-large-latest">> @@
    "analysis" :> <<"mistral-large-latest", "mistral-medium">> @@
    "lightweight" :> <<"mistral-small", "mistral-tiny">> @@
    "embedding" :> <<"mistral-embed">>

\* MistralConfig.model_categories["general"]
MistralGeneral == <<"mistral-medium", "mistral-small", "mistral-large-latest", "mistral-embed">>

\* MathGPTConfig.task_model_mappings
MathGPTTaskModels ==
    "math" :> <<"mathgpt-expert", "mathgpt-advanced">> @@
    "algebra" :> <<"mathgpt-algebra", "mathgpt-expert">> @@
    "calculus" :> <<"mathgpt-calculus", "mathgpt-expert">> @@
    "statistics" :> <<"mathgpt-statistics", "mathgpt-expert">> @@
    "arithmetic" :> <<"mathgpt-default">> @@
    "general_math" :> <<"mathgpt-default", "mathgpt-advanced">> @@
    "advanced_math" :> <<"mathgpt-expert">>

\* dict.get(key, default)
DictGet(d, key, default) == IF key \in DOMAIN d THEN d[key] ELSE default

\* OllamaConfig.get_recommended_models(task)
OllamaRecommended(task) == DictGet(OllamaTaskModels, task, OllamaGeneral)

\* OpenAIConfig.get_recommended_models(task)
OpenAIRecommended(task) == DictGet(OpenAITaskModels, task, OpenAIGeneral)

\* AnthropicConfig.get_recommended_models(task)
AnthropicRecommended(task) == DictGet(AnthropicTaskModels, task, AnthropicGeneral)

\* MistralConfig.get_recommended_models(task)
MistralRecommended(task) == DictGet(MistralTaskModels, task, MistralGeneral)

\* MathGPTConfig.get_recommended_models(task): unknown tasks get the
\* general_math list.
MathGPTRecommended(task) ==
    IF task = "math"
    THEN MathGPTTaskModels["math"]
    ELSE DictGet(MathGPTTaskModels, task, MathGPTTaskModels["general_math"])

\* self.configs[p].get_recommended_models(task)
get_recommended_models(p, task) ==
    CASE p = "ollama" -> OllamaRecommended(task)
      [] p = "openai" -> OpenAIRecommended(task)
      [] p = "anthropic" -> AnthropicRecommended(task)
      [] p = "mistral" -> MistralRecommended(task)
      [] p = "mathgpt" -> MathGPTRecommended(task)

\* DefaultConfig.recommended_models
DefaultRecommendedModels ==
    "general_chat" :> <<"gpt-3.5-turbo">> @@
    "creative_writing" :> <<"claude-3-sonnet-20240229">> @@
    "code" :> <<"gpt-4-0125-preview">> @@
    "math" :> <<"mathgpt-default">> @@
    "analysis" :> <<"claude-3-opus-20240229">>

\* DefaultConfig.get_recommended_models(task_type)
default_get_recommended_models(task) == DictGet(DefaultRecommendedModels, task, <<"gpt-3.5-turbo">>)

(***************************************************************************)
(* Adapter model catalogs.  get_available_models() returns one dict per    *)
(* model with the keys name, description and category; the model keeps the *)
(* name.  No adapter puts a key "id" into these dicts.                     *)
(***************************************************************************)
\* OllamaAdapter._initialize_models
OllamaCatalog == <<"llama3:8b", "llama3:70b", "mistral:7b", "mixtral:8x7b", "gemma:7b", "codellama:13b", "codegemma:7b", "wizardcoder:13b", "vicuna:13b", "orca-mini:13b", "wizard:13b", "tinyllama:1.1b", "phi3:mini", "qwen:0.5b", "nous-hermes:7b", "aya:8b", "dolphin-mixtral:8x7b">>

\* OpenAIAdapter._initialize_models
OpenAICatalog == <<"gpt-4o", "gpt-4o-mini", "gpt-4-turbo", "gpt-4", "gpt-4-vision-preview", "gpt-3.5-turbo", "gpt-3.5-turbo-instruct", "gpt-4-turbo-preview", "text-embedding-3-small", "text-embedding-3-large", "text-embedding-ada-002", "text-moderation-latest", "whisper-1", "tts-1", "tts-1-hd">>

\* AnthropicAdapter._initialize_models
AnthropicCatalog == <<"claude-3-opus-20240229", "claude-3-sonnet-20240229", "claude-3-haiku-20240307", "claude-2.1", "claude-2.0", "claude-instant-1.2">>

\* MistralAdapter._initialize_models
MistralCatalog == <<"mistral-tiny", "mistral-small", "mistral-medium", "mistral-large", "open-mixtral-8x7b", "open-mistral-7b", "mistral-embed">>

\* MathGPTAdapter._initialize_models
MathGPTCatalog == <<"mathgpt-v1", "mathgpt-v1-pro", "mathgpt-calculus", "mathgpt-algebra", "mathgpt-stats", "mathgpt-geometry", "mathgpt-latex">>

\* The model names of self.adapters[p].available_models, in dict order.
CatalogNames(p) ==
    CASE p = "ollama" -> OllamaCatalog
      [] p = "openai" -> OpenAICatalog
      [] p = "anthropic" -> AnthropicCatalog
      [] p = "mistral" -> MistralCatalog
      [] p = "mathgpt" -> MathGPTCatalog

\* <Provider>Adapter.get_available_models()
get_available_models(p) == [i \in 1..Len(CatalogNames(p)) |-> [name |-> CatalogNames(p)[i]]]

\* AIOrchestrator.get_available_models(provider)
orchestrator_get_available_models(p) == IF Registered(p) THEN get_available_models(p) ELSE <<>>

\* m.get("id", "") on a catalog entry
EntryId(e) == IF "id" \in DOMAIN e THEN e.id ELSE ""

\* models[0]["id"]: the value, or KeyError when the entry has no key "id"
FirstId(models) == IF "id" \in DOMAIN models[1] THEN models[1].id ELSE Raised

\* any(m.get("id", "") == model_name for m in models)
CatalogHasModel(p, model_name) == \E i \in DOMAIN get_available_models(p) : EntryId(get_available_models(p)[i]) = model_name

(***************************************************************************)
(* Backend selector: AIOrchestrator._select_provider_and_model.            *)
(* Every rule returns a pair <<provider, model>>, NoMatch when control     *)
(* falls through to the next rule, or Raised when an exception leaves it.  *)
(***************************************************************************)
\* ai_orchestrator.py:569-574
task_provider_mapping ==
    "math" :> "mathgpt" @@
    "complex_reasoning" :> "anthropic" @@
    "analysis" :> "anthropic" @@
    "code" :> "openai"

\* ai_orchestrator.py:589
PriorityOrder == <<"ollama", "openai", "anthropic", "mistral", "mathgpt">>

\* The provider-and-model rule that also requires the catalog to list the model.
ExplicitBothRuleCatalogChecked(model_name, provider) ==
    IF /\ Truthy(provider) /\ Truthy(model_name) /\ Registered(provider)
       /\ \E i \in DOMAIN CatalogNames(provider) : CatalogNames(provider)[i] = model_name
    THEN <<provider, model_name>>
    ELSE NoMatch

\* Lines 520-526: provider and model both given.
ExplicitBothRule(model_name, provider) ==
    IF Truthy(provider) /\ Truthy(model_name) /\ Registered(provider)
    THEN <<provider, model_name>>
    ELSE NoMatch

\* Lines 531-550, the body of the inner try: provider's recommendation,
\* then the default config's, then the first catalog entry.
ExplicitProviderTry(task_type, provider) ==
    IF get_recommended_models(provider, task_type) # <<>>
    THEN <<provider, get_recommended_models(provider, task_type)[1]>>
    ELSE IF default_get_recommended_models(task_type) # <<>>
    THEN <<provider, default_get_recommended_models(task_type)[1]>>
    ELSE IF orchestrator_get_available_models(provider) # <<>>
    THEN IF FirstId(orchestrator_get_available_models(provider)) = Raised
         THEN Raised
         ELSE <<provider, FirstId(orchestrator_get_available_models(provider))>>
    ELSE NoMatch

\* The provider-only rule without the `provider in self.adapters` test.
ExplicitProviderRuleUnchecked(task_type, provider) ==
    IF Truthy(provider)
    THEN IF ExplicitProviderTry(task_type, provider) = Raised
         THEN NoMatch
         ELSE ExplicitProviderTry(task_type, provider)
    ELSE NoMatch

\* Lines 529-554: only the provider given; the inner except swallows errors.
ExplicitProviderRule(task_type, provider) ==
    IF Truthy(provider) /\ Registered(provider)
    THEN IF ExplicitProviderTry(task_type, provider) = Raised
         THEN NoMatch
         ELSE ExplicitProviderTry(task_type, provider)
    ELSE NoMatch

\* Lines 557-566: scan the catalogs in registration order.
ModelScanRule(model_name) ==
    IF Truthy(model_name) /\ \E i \in DOMAIN adapters : CatalogHasModel(adapters[i], model_name)
    THEN LET first == CHOOSE i \in DOMAIN adapters :
                 /\ CatalogHasModel(adapters[i], model_name)
                 /\ \A j \in 1..(i-1) : ~CatalogHasModel(adapters[j], model_name)
         IN <<adapters[first], model_name>>
    ELSE NoMatch

\* The task table never consulted: the priority order decides alone.
TaskTableRuleIgnored(task_type) == NoMatch

\* Lines 577-586: the task table.
TaskTableRule(task_type) ==
    IF task_type \in DOMAIN task_provider_mapping
    THEN LET recommended_provider == task_provider_mapping[task_type]
         IN IF Registered(recommended_provider) /\ get_recommended_models(recommended_provider, task_type) # <<>>
            THEN <<recommended_provider, get_recommended_models(recommended_provider, task_type)[1]>>
            ELSE NoMatch
    ELSE NoMatch

\* Lines 589-598: the fixed priority order.
PriorityRule(task_type) ==
    IF \E i \in DOMAIN PriorityOrder : Registered(PriorityOrder[i]) /\ get_recommended_models(PriorityOrder[i], task_type) # <<>>
    THEN LET first == CHOOSE i \in DOMAIN PriorityOrder :
                 /\ Registered(PriorityOrder[i]) /\ get_recommended_models(PriorityOrder[i], task_type) # <<>>
                 /\ \A j \in 1..(i-1) : ~(Registered(PriorityOrder[j]) /\ get_recommended_models(PriorityOrder[j], task_type) # <<>>)
         IN <<PriorityOrder[first], get_recommended_models(PriorityOrder[first], task_type)[1]>>
    ELSE NoMatch

\* Lines 601-616: first registered provider and its first catalog entry;
\* next(iter(...)) raises StopIteration on an empty registry, the KeyError
\* of models[0]["id"] is swallowed by the try around it.
LastResortRule ==
    IF adapters = <<>>
    THEN Raised
    ELSE IF orchestrator_get_available_models(adapters[1]) # <<>> /\ FirstId(orchestrator_get_available_models(adapters[1])) # Raised
    THEN <<adapters[1], FirstId(orchestrator_get_available_models(adapters[1]))>>
    ELSE <<None, None>>

\* Lines 519-616: the rules after the empty-registry guard, first match wins.
SelectRules(task_type, model_name, provider) ==
    IF ExplicitBothRule(model_name, provider) # NoMatch THEN ExplicitBothRule(model_name, provider)
    ELSE IF ExplicitProviderRule(task_type, provider) # NoMatch THEN ExplicitProviderRule(task_type, provider)
    ELSE IF ModelScanRule(model_name) # NoMatch THEN ModelScanRule(model_name)
    ELSE IF TaskTableRule(task_type) # NoMatch THEN TaskTableRule(task_type)
    ELSE IF PriorityRule(task_type) # NoMatch THEN PriorityRule(task_type)
    ELSE LastResortRule

\* Lines 513-617: the body of the outer try.
SelectBody(task_type, model_name, provider) ==
    IF adapters = <<>>
    THEN <<None, None>>
    ELSE SelectRules(task_type, model_name, provider)

\* The selector without its empty-registry guard and without its outer
\* except: an exception of the rules reaches the caller.
select_unprotected(task_type, model_name, provider) ==
    SelectRules(task_type, model_name, provider)

\* Lines 496-620: the outer except turns any exception into (None, None).
select_provider_and_model(task_type, model_name, provider) ==
    IF SelectBody(task_type, model_name, provider) = Raised
    THEN <<None, None>>
    ELSE SelectBody(task_type, model_name, provider)

(***************************************************************************)
(* Dispatcher, single target: AIOrchestrator.generate_response.            *)
(***************************************************************************)
NoError == "none"

\* What adapter.generate_response returns when it does not raise
\* (ollama_adapter.py:136-157): a normal result, or a result whose text
\* starts with the error marker and whose metadata carries error=True.
AdapterResult(outcome) ==
    IF outcome = "ok"
    THEN [text |-> "answer", error |-> NoError]
    ELSE [text |-> "Error: 500 - backend unavailable", error |-> "True"]

\* ai_orchestrator.py:182-266.  `outcome` is what the backend call of line
\* 232 does; nothing around that call catches an exception.
generate_response(task_type, model_name, provider, outcome) ==
    LET selected == select_provider_and_model(task_type, model_name, provider)
    IN IF ~Truthy(selected[1]) \/ ~Registered(selected[1])
       THEN [status |-> "returned", response |-> "No suitable provider available for this request.",
             error |-> "provider_not_available", task_type |-> None, model |-> None, provider |-> None]
       ELSE IF outcome = "raise"
       THEN [status |-> "raised", response |-> None, error |-> NoError,
             task_type |-> task_type, model |-> selected[2], provider |-> selected[1]]
       ELSE [status |-> "returned", response |-> AdapterResult(outcome).text,
             error |-> AdapterResult(outcome).error,
             task_type |-> task_type, model |-> selected[2], provider |-> selected[1]]

\* True when the call of line 232 is reached.
BackendCalled(task_type, model_name, provider) ==
    LET selected == select_provider_and_model(task_type, model_name, provider)
    IN Truthy(selected[1]) /\ Registered(selected[1])

(***************************************************************************)
(* Entry of KnowledgeConsolidator.consolidate_responses: the metadata it   *)
(* records about its input list (knowledge_consolidator.py:41-78).         *)
(***************************************************************************)
consolidate_responses(resps, strategy) ==
    IF resps = <<>>
    THEN [error |-> "No responses to consolidate", source_count |-> 0,
          consolidation_method |-> None, source_models |-> <<>>]
    ELSE IF Len(resps) = 1
    THEN [error |-> resps[1].error, source_count |-> 1,
          consolidation_method |-> "single_response", source_models |-> <<>>]
    ELSE [error |-> NoError, source_count |-> Len(resps),
          consolidation_method |-> strategy,
          source_models |-> [i \in 1..Len(resps) |-> resps[i].model]]

(***************************************************************************)
(* Initial state: the orchestrator after construction.  self.adapters is   *)
(* a dict filled in the order of the `providers` argument, one entry per   *)
(* provider whose adapter could be built; the model starts from every      *)
(* registry of at most MaxRegistered distinct providers.                   *)
(***************************************************************************)
NoCall == [op |-> "none", task_type |-> None, model_name |-> None, provider |-> None, outcome |-> None]

NoResult == [status |-> "none", response |-> None, error |-> NoError, task_type |-> None, model |-> None, provider |-> None]

NoRequest == [task_type |-> None, providers |-> <<>>, with_models |-> FALSE, strategy |-> None, providers_to_use |-> <<>>]

NoMultiResult == [status |-> "none", error |-> NoError, source_count |-> 0, consolidation_method |-> None, source_models |-> <<>>, individual_responses |-> <<>>]

NoSel == <<>>

NoConsCall == [responses |-> <<>>, strategy |-> None]

NoConsResult == [status |-> "none"]

NoEvalCall == [op |-> "none"]

NoEvalResult == [status |-> "none"]

Init ==
    /\ adapters \in InjectiveSeqs(Providers, MaxRegistered)
    /\ pc = "idle"
    /\ sel = NoSel
    /\ callArgs = NoCall
    /\ result = NoResult
    /\ req = NoRequest
    /\ idx = 0
    /\ responses = <<>>
    /\ invoked = <<>>
    /\ raisedAt = {}
    /\ outstanding = {}
    /\ maxOutstanding = 0
    /\ multiResult = NoMultiResult
    /\ stepLog = <<>>
    /\ consCall = NoConsCall
    /\ consResult = NoConsResult
    /\ evalCall = NoEvalCall
    /\ evalResult = NoEvalResult

\* The orchestrator is between two calls.
AtRest == pc = "idle"

\* The multi-provider variables while no such request is running.
ClearMulti ==
    /\ pc' = "returned"
    /\ req' = NoRequest
    /\ idx' = 0
    /\ responses' = <<>>
    /\ invoked' = <<>>
    /\ raisedAt' = {}
    /\ outstanding' = {}
    /\ maxOutstanding' = 0
    /\ multiResult' = NoMultiResult
    /\ stepLog' = <<>>
    /\ UNCHANGED <<consVars, evalVars>>

\* A call of _select_provider_and_model(task_type, model_name, provider).
Select(task_type, model_name, provider) ==
    /\ AtRest
    /\ sel' = select_provider_and_model(task_type, model_name, provider)
    /\ callArgs' = [op |-> "select", task_type |-> task_type, model_name |-> model_name, provider |-> provider, outcome |-> None]
    /\ result' = NoResult
    /\ ClearMulti
    /\ UNCHANGED adapters

\* A call of generate_response(prompt, task_type, model_name, provider).
GenerateResponse(task_type, model_name, provider, outcome) ==
    /\ AtRest
    /\ sel' = select_provider_and_model(task_type, model_name, provider)
    /\ callArgs' = [op |-> "generate", task_type |-> task_type, model_name |-> model_name, provider |-> provider,
                    outcome |-> IF BackendCalled(task_type, model_name, provider) THEN outcome ELSE None]
    /\ result' = generate_response(task_type, model_name, provider, outcome)
    /\ ClearMulti
    /\ UNCHANGED adapters

(***************************************************************************)
(* Dispatcher, fan-out: AIOrchestrator.generate_multi_provider_response.   *)
(* The for loop of lines 302-327 is one thread of control: the call of one *)
(* iteration returns or raises before the next iteration begins.           *)
(***************************************************************************)
\* The `models` argument: absent, or a map naming a model for ollama.
ModelsArg(with_models) == IF with_models THEN ("ollama" :> "llama3:8b") ELSE [x \in {} |-> None]

\* Lines 305-307: the model handed to generate_response for this provider.
ModelFor(with_models, provider) == DictGet(ModelsArg(with_models), provider, None)

\* Line 298: providers or list(self.adapters.keys())
ProvidersToUse(providers) == IF providers = <<>> THEN adapters ELSE providers

\* An exception that ends the loop instead of one iteration.
AbortLoop(i) == Len(req.providers_to_use) + 1

\* Lines 324-327: the handler logs the error and the loop goes on with the
\* next provider.
AfterException(i) == i + 1

\* The requested and registered backends whose call has not begun when the
\* iteration at position i has finished.
PendingAfter(i) ==
    Cardinality({j \in 1..Len(req.providers_to_use) : j > i /\ Registered(req.providers_to_use[j])})

\* Lines 268-301: the call starts, the response list is empty.
MultiStart(task_type, providers, with_models, strategy) ==
    /\ AtRest
    /\ pc' = "loop"
    /\ req' = [task_type |-> task_type, providers |-> providers, with_models |-> with_models,
               strategy |-> strategy, providers_to_use |-> ProvidersToUse(providers)]
    /\ idx' = 1
    /\ responses' = <<>>
    /\ invoked' = [i \in 1..Len(ProvidersToUse(providers)) |-> 0]
    /\ raisedAt' = {}
    /\ outstanding' = {}
    /\ maxOutstanding' = 0
    /\ multiResult' = NoMultiResult
    /\ sel' = NoSel
    /\ callArgs' = [op |-> "multi", task_type |-> task_type, model_name |-> None, provider |-> None, outcome |-> None]
    /\ result' = NoResult
    /\ stepLog' = <<>>
    /\ UNCHANGED <<adapters, consVars, evalVars>>

\* Line 303 false: the requested provider is not registered, it is skipped.
MultiSkip ==
    /\ pc = "loop"
    /\ idx <= Len(req.providers_to_use)
    /\ ~Registered(req.providers_to_use[idx])
    /\ idx' = idx + 1
    /\ UNCHANGED <<adapters, pc, sel, callArgs, result, req, responses, invoked, raisedAt, outstanding, maxOutstanding, multiResult,
                   stepLog, consVars, evalVars>>

\* Lines 303-318: generate_response is called for the provider at idx.
MultiCallStart ==
    /\ pc = "loop"
    /\ idx <= Len(req.providers_to_use)
    /\ Registered(req.providers_to_use[idx])
    /\ pc' = "calling"
    /\ invoked' = [invoked EXCEPT ![idx] = @ + 1]
    /\ outstanding' = outstanding \cup {idx}
    /\ maxOutstanding' = IF Cardinality(outstanding \cup {idx}) > maxOutstanding
                         THEN Cardinality(outstanding \cup {idx}) ELSE maxOutstanding
    /\ UNCHANGED <<adapters, sel, callArgs, result, req, idx, responses, raisedAt, multiResult, stepLog, consVars, evalVars>>

\* Lines 310-327: the call settles; its result is appended, or its
\* exception is logged.  A backend call that returned has been followed,
\* inside generate_response (lines 241-249), by evaluate_response.
MultiCallSettle(outcome) ==
    /\ pc = "calling"
    /\ LET provider == req.providers_to_use[idx]
           response == generate_response(req.task_type, ModelFor(req.with_models, provider), provider, outcome)
       IN IF response.status = "raised"
          THEN /\ raisedAt' = raisedAt \cup {idx}
               /\ responses' = responses
               /\ idx' = AfterException(idx)
               /\ stepLog' = stepLog
          ELSE /\ raisedAt' = raisedAt
               /\ stepLog' = IF BackendCalled(req.task_type, ModelFor(req.with_models, provider), provider)
                             THEN Append(stepLog, [step |-> "evaluate", pending |-> PendingAfter(idx)])
                             ELSE stepLog
               /\ responses' = Append(responses, [idx |-> idx, text |-> response.response, error |-> response.error,
                                                  model |-> response.model, provider |-> response.provider])
               /\ idx' = idx + 1
    /\ outstanding' = outstanding \ {idx}
    /\ pc' = "loop"
    /\ UNCHANGED <<adapters, sel, callArgs, result, req, invoked, maxOutstanding, multiResult, consVars, evalVars>>

\* Lines 329-366: the failure object on an empty list, else consolidation.
MultiFinish ==
    /\ pc = "loop"
    /\ idx > Len(req.providers_to_use)
    /\ pc' = "returned"
    /\ multiResult' =
          IF responses = <<>>
          THEN [status |-> "failure", error |-> "no_responses_generated", source_count |-> 0,
                consolidation_method |-> None, source_models |-> <<>>, individual_responses |-> <<>>]
          ELSE [status |-> "consolidated",
                error |-> consolidate_responses(responses, req.strategy).error,
                source_count |-> consolidate_responses(responses, req.strategy).source_count,
                consolidation_method |-> consolidate_responses(responses, req.strategy).consolidation_method,
                source_models |-> consolidate_responses(responses, req.strategy).source_models,
                individual_responses |-> responses]
    /\ stepLog' =
          IF responses = <<>>
          THEN stepLog
          ELSE stepLog \o <<[step |-> "consolidate", pending |-> PendingAfter(idx - 1)],
                            [step |-> "evaluate", pending |-> PendingAfter(idx - 1)]>>
    /\ UNCHANGED <<adapters, sel, callArgs, result, req, idx, responses, invoked, raisedAt, outstanding, maxOutstanding,
                   consVars, evalVars>>

\* The caller has taken the returned value; the orchestrator keeps no state
\* of a request beyond its registry.
Return ==
    /\ pc = "returned"
    /\ pc' = "idle"
    /\ sel' = NoSel
    /\ callArgs' = NoCall
    /\ result' = NoResult
    /\ req' = NoRequest
    /\ idx' = 0
    /\ responses' = <<>>
    /\ invoked' = <<>>
    /\ raisedAt' = {}
    /\ outstanding' = {}
    /\ maxOutstanding' = 0
    /\ multiResult' = NoMultiResult
    /\ stepLog' = <<>>
    /\ UNCHANGED <<adapters, consVars, evalVars>>

Next ==
    \/ \E t \in TaskTypes, m \in ModelNames \cup {None}, p \in Providers \cup {None} : Select(t, m, p)
    \/ \E t \in TaskTypes, m \in ModelNames \cup {None}, p \in Providers \cup {None}, o \in Outcomes : GenerateResponse(t, m, p, o)
    \/ \E t \in MultiTasks, ps \in SeqsUpTo(RequestableProviders, MaxRequested), wm \in BOOLEAN, st \in Strategies : MultiStart(t, ps, wm, st)
    \/ MultiSkip
    \/ MultiCallStart
    \/ \E o \in Outcomes : MultiCallSettle(o)
    \/ MultiFinish
    \/ Return

Spec == Init /\ [][Next]_vars

(***************************************************************************)
(* Properties of the selector.                                             *)
(***************************************************************************)
SelectorCalled == pc = "returned" /\ callArgs.op \in {"select", "generate"}

\* The provider that the task table (if its provider is registered) or else
\* the priority order designates for a task: q is designated when it is the
\* registered table entry, or no table entry is registered and q is the
\* earliest registered provider of the priority order.
DesignatedFor(task_type, q) ==
    /\ Registered(q)
    /\ get_recommended_models(q, task_type) # <<>>
    /\ \/ task_type \in DOMAIN task_provider_mapping /\ task_provider_mapping[task_type] = q
       \/ /\ ~(/\ task_type \in DOMAIN task_provider_mapping
               /\ Registered(task_provider_mapping[task_type])
               /\ get_recommended_models(task_provider_mapping[task_type], task_type) # <<>>)
          /\ \E i \in DOMAIN PriorityOrder :
                /\ PriorityOrder[i] = q
                /\ \A j \in 1..(i-1) :
                      ~(Registered(PriorityOrder[j]) /\ get_recommended_models(PriorityOrder[j], task_type) # <<>>)

\* C1: for every task type, provider and model (each possibly absent) the
\* selector returns a pair and raises nothing; with an empty registry the
\* pair is (None, None) and generate_response returns the
\* provider_not_available error result as data.
C1_SelectorNeverRaises ==
    SelectorCalled =>
        /\ sel # Raised
        /\ Len(sel) = 2
        /\ adapters = <<>> => sel = <<None, None>>
        /\ (adapters = <<>> /\ callArgs.op = "generate") =>
              (result.status = "returned" /\ result.error = "provider_not_available")

C1_Witness ==
    /\ SelectorCalled
    /\ callArgs.op = "generate"
    /\ adapters = <<>>
    /\ callArgs.provider = "anthropic"
    /\ callArgs.model_name = "claude-2.1"
    /\ sel = <<None, None>>
    /\ result.error = "provider_not_available"

\* C2: with an explicit provider that is not registered and no explicit
\* model, the selector returns the provider that the task table / priority
\* order designates for the task, with that provider's first
\* recommendation; with only ollama registered, provider anthropic and task
\* general_chat it returns (ollama, mistral:7b).
C2_UnregisteredProviderFallsThrough ==
    (/\ SelectorCalled
     /\ callArgs.provider # None
     /\ ~Registered(callArgs.provider)
     /\ callArgs.model_name = None) =>
        /\ sel # Raised
        /\ \A q \in Providers : DesignatedFor(callArgs.task_type, q) =>
              sel = <<q, get_recommended_models(q, callArgs.task_type)[1]>>
        /\ (adapters = <<"ollama">> /\ callArgs.provider = "anthropic" /\ callArgs.task_type = "general_chat") =>
              sel = <<"ollama", "mistral:7b">>

C2_Witness ==
    /\ SelectorCalled
    /\ adapters = <<"ollama">>
    /\ callArgs.provider = "anthropic"
    /\ callArgs.model_name = None
    /\ callArgs.task_type = "general_chat"
    /\ sel = <<"ollama", OllamaTaskModels["general_chat"][1]>>

\* C3: when the explicit provider is registered the selector returns that
\* provider, with the explicit model unchanged if one is given (whether or
\* not a catalog lists it) and otherwise with the first entry of that
\* provider's recommended list for the task.
C3_RegisteredProviderIsUsed ==
    (/\ SelectorCalled
     /\ callArgs.provider # None
     /\ Registered(callArgs.provider)) =>
        /\ sel[1] = callArgs.provider
        /\ callArgs.model_name # None => sel[2] = callArgs.model_name
        /\ callArgs.model_name = None =>
              sel[2] = get_recommended_models(callArgs.provider, callArgs.task_type)[1]

C3_Witness ==
    /\ SelectorCalled
    /\ Registered("mistral")
    /\ callArgs.provider = "mistral"
    /\ callArgs.model_name = "my-custom-model"
    /\ callArgs.task_type = "math"
    /\ sel = <<"mistral", "my-custom-model">>

\* A provider's catalog lists a model of that name.
CatalogLists(p, model_name) == \E i \in DOMAIN CatalogNames(p) : CatalogNames(p)[i] = model_name

\* C4: with only a model given, and some registered provider's catalog
\* listing a model of that name, the selector returns the first such
\* provider in registration order together with the requested model.
C4_ModelScanFindsProvider ==
    (/\ SelectorCalled
     /\ callArgs.provider = None
     /\ callArgs.model_name # None) =>
        \A i \in DOMAIN adapters :
            (/\ CatalogLists(adapters[i], callArgs.model_name)
             /\ \A j \in 1..(i-1) : ~CatalogLists(adapters[j], callArgs.model_name)) =>
                sel = <<adapters[i], callArgs.model_name>>

\* C5: with neither provider nor model given, the selector returns the
\* task table's provider when it is registered, and otherwise the first
\* registered provider of the order ollama, openai, anthropic, mistral,
\* mathgpt, in both cases with that provider's first recommended model.
C5_TaskTableThenPriority ==
    (/\ SelectorCalled
     /\ callArgs.provider = None
     /\ callArgs.model_name = None) =>
        \A q \in Providers : DesignatedFor(callArgs.task_type, q) =>
            sel = <<q, get_recommended_models(q, callArgs.task_type)[1]>>

C5_Witness ==
    /\ SelectorCalled
    /\ callArgs.provider = None
    /\ callArgs.model_name = None
    /\ callArgs.task_type = "math"
    /\ Registered("ollama")
    /\ Registered("mathgpt")
    /\ sel = <<"mathgpt", "mathgpt-expert">>

(***************************************************************************)
(* Properties of the dispatcher.                                           *)
(***************************************************************************)
MultiReturned == pc = "returned" /\ callArgs.op = "multi"

\* Request positions whose provider is registered.
RegisteredPositions == {i \in 1..Len(req.providers_to_use) : Registered(req.providers_to_use[i])}

\* Positions of the response list whose entry is not error-marked.
UsableResponses == {i \in 1..Len(responses) : responses[i].error = NoError}

\* C6: a backend whose call failed, by raising or by returning an
\* error-marked result, has no entry in the list handed to the
\* consolidator, and source_count counts the backends that succeeded.
C6_FailedBackendsOmitted ==
    MultiReturned =>
        /\ \A i \in 1..Len(responses) : responses[i].error = NoError
        /\ multiResult.source_count = Cardinality(UsableResponses)

\* C7: whichever backends raise, every requested and registered backend is
\* invoked exactly once, no unregistered one is invoked, every backend that
\* did not raise has exactly one entry in the response list, and the entries
\* are in request order.
C7_FailuresAreIsolated ==
    MultiReturned =>
        /\ \A i \in 1..Len(req.providers_to_use) :
              invoked[i] = (IF i \in RegisteredPositions THEN 1 ELSE 0)
        /\ \A i \in RegisteredPositions \ raisedAt :
              Cardinality({k \in 1..Len(responses) : responses[k].idx = i}) = 1
        /\ \A k \in 1..Len(responses) :
              /\ responses[k].idx \in RegisteredPositions \ raisedAt
              /\ responses[k].provider = req.providers_to_use[responses[k].idx]
        /\ \A k, l \in 1..Len(responses) : k < l => responses[k].idx < responses[l].idx

C7_Witness ==
    /\ MultiReturned
    /\ \E i \in raisedAt : \E k \in 1..Len(responses) : responses[k].idx > i

\* C8: generate_response returns a result as data whatever the selected
\* backend's generate call does; no exception of that call reaches the
\* caller.
C8_SingleTargetNeverRaises ==
    (pc = "returned" /\ callArgs.op = "generate") => result.status = "returned"

\* C9: generate_multi_provider_response returns the no_responses_generated
\* failure object exactly when no requested backend produced a usable
\* response, a consolidated result otherwise, and never raises.
C9_FailureObjectIffNothingUsable ==
    MultiReturned =>
        /\ multiResult.status \in {"failure", "consolidated"}
        /\ multiResult.status = "failure" <=> UsableResponses = {}
        /\ multiResult.status = "failure" => multiResult.error = "no_responses_generated"

\* C10: a request dispatched to two or more backends has, at some moment,
\* two backend calls outstanding at the same time.
C10_CallsOverlap ==
    (MultiReturned /\ Cardinality(RegisteredPositions) >= 2) => maxOutstanding >= 2

\* C11: during generate_multi_provider_response every evaluation and
\* consolidation step runs after the call to every requested backend has
\* settled: no step is logged while a requested backend is still to be called.
C11_StepsAfterDispatch ==
    \A k \in 1..Len(stepLog) : stepLog[k].pending = 0

(***************************************************************************)
(* Text.  A text is a string; the operators below are the str methods the  *)
(* consolidator uses, computed character by character.                     *)
(***************************************************************************)
CharAt(s, i) == SubSeq(s, i, i)

\* The characters str.strip() and str.split() treat as white space.
Whitespace == {" ", "\n", "\t"}

MinOf(S) == CHOOSE x \in S : \A y \in S : x <= y

MaxOf(S) == CHOOSE x \in S : \A y \in S : x >= y

UpperToLower ==
    ("A" :> "a") @@ ("B" :> "b") @@ ("C" :> "c") @@ ("D" :> "d") @@ ("E" :> "e") @@ ("F" :> "f") @@ ("G" :> "g") @@
    ("H" :> "h") @@ ("I" :> "i") @@ ("J" :> "j") @@ ("K" :> "k") @@ ("L" :> "l") @@ ("M" :> "m") @@ ("N" :> "n") @@
    ("O" :> "o") @@ ("P" :> "p") @@ ("Q" :> "q") @@ ("R" :> "r") @@ ("S" :> "s") @@ ("T" :> "t") @@ ("U" :> "u") @@
    ("V" :> "v") @@ ("W" :> "w") @@ ("X" :> "x") @@ ("Y" :> "y") @@ ("Z" :> "z")

\* str.lower()
RECURSIVE str_lower(_)
str_lower(s) ==
    IF s = "" THEN ""
    ELSE DictGet(UpperToLower, Head(s), Head(s)) \o str_lower(Tail(s))

\* str.replace(old, new) for a one-character `old`.
RECURSIVE str_replace(_, _, _)
str_replace(s, old, new) ==
    IF s = "" THEN ""
    ELSE (IF Head(s) = old THEN new ELSE Head(s)) \o str_replace(Tail(s), old, new)

\* str.strip()
str_strip(s) ==
    LET keep == {i \in 1..Len(s) : CharAt(s, i) \notin Whitespace}
    IN IF keep = {} THEN "" ELSE SubSeq(s, MinOf(keep), MaxOf(keep))

\* str.split(sep) for a one-character separator: empty pieces are kept.
RECURSIVE str_split(_, _)
str_split(s, sep) ==
    LET at == {i \in 1..Len(s) : CharAt(s, i) = sep}
    IN IF at = {} THEN <<s>>
       ELSE <<SubSeq(s, 1, MinOf(at) - 1)>> \o str_split(SubSeq(s, MinOf(at) + 1, Len(s)), sep)

\* str.split() without argument: pieces between runs of white space.
RECURSIVE str_split_ws(_)
str_split_ws(s) ==
    LET t == str_strip(s)
        at == {i \in 1..Len(t) : CharAt(t, i) \in Whitespace}
    IN IF t = "" THEN <<>>
       ELSE IF at = {} THEN <<t>>
       ELSE <<SubSeq(t, 1, MinOf(at) - 1)>> \o str_split_ws(SubSeq(t, MinOf(at) + 1, Len(t)))

\* sep.join(parts)
RECURSIVE str_join(_, _)
str_join(parts, sep) ==
    IF parts = <<>> THEN ""
    ELSE IF Len(parts) = 1 THEN parts[1]
    ELSE parts[1] \o sep \o str_join(Tail(parts), sep)

\* str.endswith(suffix)
str_endswith(s, suffix) ==
    Len(s) >= Len(suffix) /\ SubSeq(s, Len(s) - Len(suffix) + 1, Len(s)) = suffix

\* `sub in s`
str_contains(sub, s) ==
    \E i \in 1..(Len(s) - Len(sub) + 1) : SubSeq(s, i, i + Len(sub) - 1) = sub

\* set(text.lower().split())
word_set(text) == Range(str_split_ws(str_lower(text)))

(***************************************************************************)
(* Numbers.  The consolidator's floats are ratios of small integers; a     *)
(* ratio is kept as a pair <<numerator, denominator>> in lowest terms, so  *)
(* that equal values are equal pairs.                                      *)
(***************************************************************************)
RECURSIVE GCD(_, _)
GCD(a, b) == IF b = 0 THEN a ELSE GCD(b, a % b)

Frac(n, d) == LET g == GCD(n, d) IN <<n \div g, d \div g>>

FracAdd(a, b) ==
    LET g == GCD(a[2], b[2])
    IN Frac(a[1] * (b[2] \div g) + b[1] * (a[2] \div g), (a[2] \div g) * b[2])

FracSub(a, b) == FracAdd(a, <<0 - b[1], b[2]>>)

FracMul(a, b) == Frac(a[1] * b[1], a[2] * b[2])

FracDiv(a, b) == Frac(a[1] * b[2], a[2] * b[1])

FracLT(a, b) == a[1] * b[2] < b[1] * a[2]

FracLE(a, b) == a[1] * b[2] <= b[1] * a[2]

FracMax(a, b) == IF FracLT(a, b) THEN b ELSE a

FracMin(a, b) == IF FracLT(b, a) THEN b ELSE a

RECURSIVE FracSum(_)
FracSum(fs) == IF fs = <<>> THEN <<0, 1>> ELSE FracAdd(Head(fs), FracSum(Tail(fs)))

(***************************************************************************)
(* KnowledgeConsolidator (knowledge_consolidator.py).  A response is a     *)
(* record [text, metadata]; metadata is a dict that may hold "confidence"  *)
(* (a ratio) and "model" (a string).                                       *)
(***************************************************************************)
\* Line 13: min_agreement_threshold = 0.6
min_agreement_threshold == <<3, 5>>

\* {**d, key: value}
DictSet(d, key, value) == (key :> value) @@ d

\* [f(x) for x in seq]
MapSeq(seq, f(_)) == [i \in 1..Len(seq) |-> f(seq[i])]

\* seq with the element at position k removed.
RemoveAt(seq, k) == SubSeq(seq, 1, k - 1) \o SubSeq(seq, k + 1, Len(seq))

\* The positions of `keys` in the order list.sort(key=..., reverse=True)
\* leaves them: descending, and equal keys in their original order.
RECURSIVE order_desc(_, _)
order_desc(keys, positions) ==
    IF keys = <<>> THEN <<>>
    ELSE LET best == MinOf({i \in 1..Len(keys) : \A j \in 1..Len(keys) : FracLE(keys[j], keys[i])})
         IN <<positions[best]>> \o order_desc(RemoveAt(keys, best), RemoveAt(positions, best))

\* The positions as they come, unsorted.
sorted_as_given(keys) == [i \in 1..Len(keys) |-> i]

sorted_desc(keys) == order_desc(keys, [i \in 1..Len(keys) |-> i])

\* Lines 508-533: model_tiers, in the order of the dict.
model_tiers ==
    << <<"gpt-4o", 10>>, <<"gpt-4-turbo", 9>>, <<"gpt-4", 9>>, <<"gpt-3.5-turbo", 7>>,
       <<"claude-3-opus", 10>>, <<"claude-3-sonnet", 8>>, <<"claude-3-haiku", 7>>, <<"claude-2.1", 7>>,
       <<"mistral-large", 9>>, <<"mistral-medium", 7>>, <<"mistral-small", 6>>, <<"mistral-tiny", 5>>,
       <<"open-mixtral-8x7b", 6>>,
       <<"llama3:70b", 8>>, <<"llama3:8b", 6>>, <<"mixtral:8x7b", 6>>, <<"mistral:7b", 5>>,
       <<"mathgpt-v1-pro", 8>>, <<"mathgpt-v1", 7>> >>

\* Line 541: the tier of a model no key matches.
default_tier == 5

\* Lines 497-541: the tier of the first key contained in the lowered name.
get_model_tier(model_name) ==
    LET lowered == str_lower(model_name)
        hits == {i \in 1..Len(model_tiers) : str_contains(model_tiers[i][1], lowered)}
    IN IF hits = {} THEN default_tier ELSE model_tiers[MinOf(hits)][2]

\* Lines 194-200 (and 95-101): the response's confidence, or its model's
\* tier / 10 when it has none.
confidence_of(response) ==
    IF "confidence" \in DOMAIN response.metadata
    THEN response.metadata["confidence"]
    ELSE Frac(get_model_tier(DictGet(response.metadata, "model", "")), 10)

\* Lines 268-284: the sentences of a text that are longer than 15 characters.
extract_statements(text) ==
    LET pieces == MapSeq(str_split(str_replace(text, "\n", " "), "."), str_strip)
        sentences == SelectSeq(pieces, LAMBDA s : s # "")
    IN SelectSeq(sentences, LAMBDA s : Len(s) > 15)

\* Lines 309-316 and 393-399: shared words over the smaller word set, for
\* two statements that both have words.
word_overlap(words1, words2) ==
    LET smaller == IF Cardinality(words1) < Cardinality(words2) THEN Cardinality(words1) ELSE Cardinality(words2)
    IN Frac(Cardinality(words1 \cap words2), smaller)

\* Lines 309-319: both statements have words and their overlap exceeds 0.5.
similar_statements(current, other) ==
    LET words1 == word_set(current)
        words2 == word_set(other)
    IN /\ words1 # {}
       /\ words2 # {}
       /\ FracLT(<<5, 10>>, word_overlap(words1, words2))

\* Lines 286-328: the first unclustered statement takes with it every later
\* one that is similar to it.
RECURSIVE cluster_similar_statements(_)
cluster_similar_statements(statements) ==
    IF statements = <<>> THEN <<>>
    ELSE LET current == Head(statements)
             others == Tail(statements)
             joins == [i \in 1..Len(others) |-> similar_statements(current, others[i])]
             taken[i \in 0..Len(others)] ==
                 IF i = 0 THEN <<>> ELSE IF joins[i] THEN Append(taken[i - 1], others[i]) ELSE taken[i - 1]
             left[i \in 0..Len(others)] ==
                 IF i = 0 THEN <<>> ELSE IF joins[i] THEN left[i - 1] ELSE Append(left[i - 1], others[i])
         IN <<(<<current>> \o taken[Len(others)])>> \o cluster_similar_statements(left[Len(others)])

\* Jaccard similarity of two word sets that are not both empty.
jaccard(words1, words2) == Frac(Cardinality(words1 \cap words2), Cardinality(words1 \cup words2))

\* The sum of the Jaccard similarities of a set of pairs of positions.
RECURSIVE sum_jaccard(_, _)
sum_jaccard(word_sets, pairs) ==
    IF pairs = {} THEN <<0, 1>>
    ELSE LET p == CHOOSE q \in pairs : TRUE
         IN FracAdd(jaccard(word_sets[p[1]], word_sets[p[2]]), sum_jaccard(word_sets, pairs \ {p}))

\* Lines 456-495: 1.0 for at most one text, else the average Jaccard
\* similarity of the pairs of texts that both have words (0.0 without such
\* a pair).
calculate_text_similarity(texts) ==
    IF Len(texts) <= 1 THEN <<1, 1>>
    ELSE LET word_sets == MapSeq(texts, word_set)
             pairs == {p \in (1..Len(texts)) \X (1..Len(texts)) :
                          p[1] < p[2] /\ word_sets[p[1]] # {} /\ word_sets[p[2]] # {}}
             total_similarity == sum_jaccard(word_sets, pairs)
             pair_count == Cardinality(pairs)
         IN FracDiv(total_similarity, <<IF pair_count > 1 THEN pair_count ELSE 1, 1>>)

\* Lines 428-434: the transition phrase of the i-th addition (from 0).
transition_phrase(i, max_additions) ==
    IF i = 0 THEN " Additionally, "
    ELSE IF i = max_additions - 1 THEN " Finally, "
    ELSE " Furthermore, "

\* Lines 330-438: the text of the heaviest response, followed by up to three
\* statements of the others that no statement of it makes redundant.
create_weighted_text(resps, weights) ==
    LET order == sorted_desc(weights)
        texts == [i \in 1..Len(order) |-> resps[order[i]].text]
        sorted_weights == [i \in 1..Len(order) |-> weights[order[i]]]
        base_text == texts[1]
        base_statements == Range(extract_statements(base_text))
        base_words == {word_set(base_stmt) : base_stmt \in base_statements}
        is_new_info(statement) ==
            LET words1 == word_set(statement)
            IN \A words2 \in base_words :
                  ~(/\ words1 # {}
                    /\ words2 # {}
                    /\ FracLT(<<7, 10>>, word_overlap(words1, words2)))
        additions_of(i) ==
            MapSeq(SelectSeq(extract_statements(texts[i]), LAMBDA st : Len(st) >= 20 /\ is_new_info(st)),
                   LAMBDA st : <<st, sorted_weights[i]>>)
        collect[i \in 1..Len(texts)] == IF i = 1 THEN <<>> ELSE collect[i - 1] \o additions_of(i)
        additional_statements == collect[Len(texts)]
        by_weight == sorted_desc(MapSeq(additional_statements, LAMBDA a : a[2]))
        max_additions == IF Len(additional_statements) < 3 THEN Len(additional_statements) ELSE 3
        separated == IF base_text # "" /\ ~str_endswith(base_text, ".") THEN base_text \o "." ELSE base_text
        enrich[i \in 0..max_additions] ==
            IF i = 0 THEN separated
            ELSE enrich[i - 1] \o transition_phrase(i - 1, max_additions) \o additional_statements[by_weight[i]][1]
    IN IF resps = <<>> THEN ""
       ELSE IF Len(texts) = 1 THEN texts[1]
       ELSE IF max_additions > 0 THEN enrich[max_additions]
       ELSE base_text

\* Lines 440-454: the similarity of the responses' texts.
calculate_agreement_level(resps) ==
    calculate_text_similarity(MapSeq(resps, LAMBDA r : r.text))

\* A selection that takes the first response, whatever the confidences.
consolidate_by_first_response(resps) ==
    [text |-> resps[1].text,
     metadata |-> DictSet(DictSet(resps[1].metadata, "selection_method", "highest_confidence"),
                          "selected_confidence", confidence_of(resps[1]))]

\* Lines 179-215: the first response of the highest confidence, with its
\* metadata and the selection recorded.
consolidate_by_highest_confidence(resps) ==
    LET scores == MapSeq(resps, confidence_of)
        best == sorted_desc(scores)[1]
    IN [text |-> resps[best].text,
        metadata |-> DictSet(DictSet(resps[best].metadata, "selection_method", "highest_confidence"),
                             "selected_confidence", scores[best])]

\* Lines 80-127: weights max(0.1, confidence) normalised to sum 1, the
\* weighted text, and the average of the confidences (0.5 where absent).
consolidate_by_weighting(resps) ==
    LET raw == MapSeq(resps, LAMBDA r : FracMax(<<1, 10>>, confidence_of(r)))
        total_weight == FracSum(raw)
        weights == MapSeq(raw, LAMBDA w : FracDiv(w, total_weight))
        avg_confidence == FracDiv(FracSum(MapSeq(resps, LAMBDA r : DictGet(r.metadata, "confidence", <<1, 2>>))),
                                  <<Len(resps), 1>>)
    IN [text |-> create_weighted_text(resps, weights),
        metadata |-> ("confidence" :> avg_confidence) @@ ("weights" :> weights) @@
                     ("agreement_level" :> calculate_agreement_level(resps))]

\* Line 151: max(2, int(len(responses) * self.min_agreement_threshold))
threshold_count(n) ==
    LET needed == (n * min_agreement_threshold[1]) \div min_agreement_threshold[2]
    IN IF needed > 2 THEN needed ELSE 2

\* Line 160: max(cluster, key=len), the first of the longest statements.
best_formulation(cluster) ==
    cluster[MinOf({i \in 1..Len(cluster) : \A j \in 1..Len(cluster) : Len(cluster[j]) <= Len(cluster[i])})]

\* Lines 142-148: the clusters of the statements of all the responses.
statement_clusters_of(resps) ==
    LET collect[i \in 0..Len(resps)] ==
            IF i = 0 THEN <<>> ELSE collect[i - 1] \o extract_statements(resps[i].text)
    IN cluster_similar_statements(collect[Len(resps)])

\* Lines 129-177: the best formulation of every cluster that reaches the
\* threshold, joined by a space; the highest-confidence text when no cluster
\* does.
consolidate_by_majority_vote(resps) ==
    LET statement_clusters == statement_clusters_of(resps)
        consensus_clusters == SelectSeq(statement_clusters, LAMBDA c : Len(c) >= threshold_count(Len(resps)))
        consolidated_text ==
            IF consensus_clusters # <<>>
            THEN str_join(MapSeq(consensus_clusters, best_formulation), " ")
            ELSE consolidate_by_highest_confidence(resps).text
    IN [text |-> consolidated_text,
        metadata |-> ("confidence" :> Frac(threshold_count(Len(resps)), Len(resps))) @@
                     ("agreement_level" :> Frac(Len(consensus_clusters),
                                                IF Len(statement_clusters) > 1 THEN Len(statement_clusters) ELSE 1)) @@
                     ("threshold_used" :> threshold_count(Len(resps)))]

\* A branch that goes from the weighted result straight to the
\* highest-confidence one.
ensemble_choice_without_mix(methods_agreement) ==
    IF FracLT(<<8, 10>>, methods_agreement) THEN "weighted" ELSE "highest_confidence"

\* Lines 243-263: the branch taken for a given agreement of the methods.
ensemble_choice_for(methods_agreement) ==
    IF FracLT(<<8, 10>>, methods_agreement) THEN "weighted"
    ELSE IF FracLT(<<5, 10>>, methods_agreement) THEN "weighted_majority_mix"
    ELSE "highest_confidence"

\* Lines 244-267: the answer for the agreement of the three methods, with
\* ensemble_choice and methods_agreement written into its metadata.
ensemble_result(weighted_response, majority_response, highest_conf_response, methods_agreement, choice) ==
    LET chosen ==
            IF choice = "weighted"
            THEN [text |-> weighted_response.text,
                  metadata |-> DictSet(weighted_response.metadata, "ensemble_choice", "weighted")]
            ELSE IF choice = "weighted_majority_mix"
            THEN [text |-> create_weighted_text(<<weighted_response, majority_response>>, << <<6, 10>>, <<4, 10>> >>),
                  metadata |-> ("confidence" :> FracAdd(FracMul(<<6, 10>>, weighted_response.metadata["confidence"]),
                                                        FracMul(<<4, 10>>, majority_response.metadata["confidence"]))) @@
                               ("ensemble_choice" :> "weighted_majority_mix")]
            ELSE [text |-> highest_conf_response.text,
                  metadata |-> DictSet(highest_conf_response.metadata, "ensemble_choice", "highest_confidence")]
    IN [text |-> chosen.text, metadata |-> DictSet(chosen.metadata, "methods_agreement", methods_agreement)]

\* Lines 244-264: the agreement of the three methods decides.
ensemble_of(weighted_response, majority_response, highest_conf_response, methods_agreement) ==
    ensemble_result(weighted_response, majority_response, highest_conf_response, methods_agreement,
                    ensemble_choice_for(methods_agreement))

\* Lines 235-241: the similarity of the three methods' texts.
ensemble_compare(weighted_response, majority_response, highest_conf_response) ==
    ensemble_of(weighted_response, majority_response, highest_conf_response,
                calculate_text_similarity(
                    <<weighted_response.text, majority_response.text, highest_conf_response.text>>))

\* Lines 217-266: the three strategies are run and their texts compared.
consolidate_by_ensemble(resps) ==
    ensemble_compare(consolidate_by_weighting(resps), consolidate_by_majority_vote(resps),
                     consolidate_by_highest_confidence(resps))

\* A dispatch that has no shortcut for a single response.
is_single_never(resps) == FALSE

\* Line 45: len(responses) == 1
is_single(resps) == Len(resps) = 1

\* Lines 56-69: the strategy's method; an unknown strategy is weighting.
apply_strategy(resps, strategy) ==
    CASE strategy = "weight_by_confidence" -> consolidate_by_weighting(resps)
      [] strategy = "majority_vote" -> consolidate_by_majority_vote(resps)
      [] strategy = "highest_confidence" -> consolidate_by_highest_confidence(resps)
      [] strategy = "ensemble" -> consolidate_by_ensemble(resps)
      [] OTHER -> consolidate_by_weighting(resps)

\* A result returned as the strategy's method built it.
stamp_nothing(built, resps, strategy) == built

\* Lines 72-76: source_count, consolidation_method and source_models are
\* written into the metadata of the strategy's result.
stamp_metadata(built, resps, strategy) ==
    [text |-> built.text,
     metadata |-> DictSet(DictSet(DictSet(built.metadata, "source_count", Len(resps)),
                                  "consolidation_method", strategy),
                          "source_models", MapSeq(resps, LAMBDA r : DictGet(r.metadata, "model", "unknown")))]

\* Lines 24-78: KnowledgeConsolidator.consolidate_responses, text and
\* metadata.
consolidate(resps, strategy) ==
    IF resps = <<>>
    THEN [text |-> "", metadata |-> ("error" :> "No responses to consolidate")]
    ELSE IF is_single(resps)
    THEN [text |-> resps[1].text,
          metadata |-> DictSet(DictSet(resps[1].metadata, "consolidation_method", "single_response"), "source_count", 1)]
    ELSE stamp_metadata(apply_strategy(resps, strategy), resps, strategy)

(***************************************************************************)
(* Direct calls of KnowledgeConsolidator.consolidate_responses.  The       *)
(* responses are drawn from a pool: two backends giving the same sentence, *)
(* one with a confidence and one rated by its model's tier; a sentence on  *)
(* other words that lacks its period; a variant of the first sentence      *)
(* followed by a short remark.  A fifth backend, which says its sentence   *)
(* twice, the second time in another word order, takes part in the short   *)
(* calls.                                                                  *)
(***************************************************************************)
\* Largest number of responses in one call.
MaxResponses == 4

TextA == "alpha bravo charlie delta."

TextB == "kilo lima mike november"

TextC == "Alpha bravo charlie zulu. Yes indeed."

TextD == "papa quebec romeo. Romeo quebec papa."

ResponsePool ==
    { [text |-> TextA, metadata |-> ("confidence" :> <<4, 5>>) @@ ("model" :> "gpt-4o")],
      [text |-> TextA, metadata |-> ("model" :> "mistral:7b")],
      [text |-> TextB, metadata |-> ("confidence" :> <<7, 10>>) @@ ("model" :> "claude-2.1")],
      [text |-> TextC, metadata |-> ("model" :> "gpt-4-turbo-preview")] }

\* The backend that repeats itself.
RepeatingResponse == [text |-> TextD, metadata |-> ("model" :> "mistral:7b")]

\* Largest number of responses in a call it takes part in.
MaxRepeating == 2

\* The response lists of the calls.
ConsInputs ==
    SeqsUpTo(ResponsePool, MaxResponses) \cup SeqsUpTo(ResponsePool \cup {RepeatingResponse}, MaxRepeating)

\* The four strategies and a name that is none of them.
ConsStrategies == {"weight_by_confidence", "majority_vote", "highest_confidence", "ensemble", "borda_count"}

ConsInit ==
    /\ adapters = <<>>
    /\ pc = "idle"
    /\ sel = NoSel
    /\ callArgs = NoCall
    /\ result = NoResult
    /\ req = NoRequest
    /\ idx = 0
    /\ responses = <<>>
    /\ invoked = <<>>
    /\ raisedAt = {}
    /\ outstanding = {}
    /\ maxOutstanding = 0
    /\ multiResult = NoMultiResult
    /\ stepLog = <<>>
    /\ consCall = NoConsCall
    /\ consResult = NoConsResult
    /\ evalCall = NoEvalCall
    /\ evalResult = NoEvalResult

\* consolidate_responses(responses, strategy) is called.
ConsolidateCall(resps, strategy) ==
    /\ consCall = NoConsCall
    /\ consCall' = [responses |-> resps, strategy |-> strategy]
    /\ UNCHANGED <<orchVars, consResult, evalVars>>

\* Line 78: the dict the caller receives.
ConsResultOf(returned) == [status |-> "returned", text |-> returned.text, metadata |-> returned.metadata]

\* Lines 41-78: the call returns its result.
Consolidate ==
    /\ consCall # NoConsCall
    /\ consResult = NoConsResult
    /\ consResult' = ConsResultOf(consolidate(consCall.responses, consCall.strategy))
    /\ UNCHANGED <<orchVars, consCall, evalVars>>

\* The caller has taken the result; the consolidator keeps nothing of a call.
ConsReturn ==
    /\ consResult # NoConsResult
    /\ consCall' = NoConsCall
    /\ consResult' = NoConsResult
    /\ UNCHANGED <<orchVars, evalVars>>

ConsNext ==
    \/ /\ consCall = NoConsCall
       /\ \E resps \in ConsInputs, strategy \in ConsStrategies : ConsolidateCall(resps, strategy)
    \/ Consolidate
    \/ ConsReturn

ConsSpec == ConsInit /\ [][ConsNext]_vars

(***************************************************************************)
(* Properties of the consolidator.                                         *)
(***************************************************************************)
ConsReturned == consResult.status = "returned"

ConsReturnedFor(strategy) == ConsReturned /\ consCall.strategy = strategy

\* max(2, ceil(N * 0.6)): the cluster size the majority is to reach.
ClaimedThreshold(n) ==
    LET needed == (n * min_agreement_threshold[1] + min_agreement_threshold[2] - 1) \div min_agreement_threshold[2]
    IN IF needed > 2 THEN needed ELSE 2

\* The statements that stand for a cluster of at least that size.
BackedStatements(resps) ==
    MapSeq(SelectSeq(statement_clusters_of(resps), LAMBDA c : Len(c) >= ClaimedThreshold(Len(resps))),
           best_formulation)

\* The elements of seq at the positions in keep, in order.
Pick(seq, keep) ==
    LET f[i \in 0..Len(seq)] == IF i = 0 THEN <<>> ELSE IF i \in keep THEN Append(f[i - 1], seq[i]) ELSE f[i - 1]
    IN f[Len(seq)]

\* C12: for N >= 1 responses the majority_vote text is made only of
\* statements that stand for a cluster of at least max(2, ceil(N * 0.6))
\* statements; when no cluster is that large the text is the one the
\* fallback gives, the highest-confidence response's.
C12_MajorityOnlyBackedStatements ==
    (ConsReturnedFor("majority_vote") /\ Len(consCall.responses) >= 1) =>
        LET backed == BackedStatements(consCall.responses)
        IN \/ \E keep \in SUBSET (1..Len(backed)) :
                 keep # {} /\ consResult.text = str_join(Pick(backed, keep), " ")
           \/ /\ backed = <<>>
              /\ consResult.text = consolidate_by_highest_confidence(consCall.responses).text

\* C13: for N >= 1 responses the highest_confidence text is, character for
\* character, the text of an input response whose weight (its confidence,
\* or its model's tier / 10 when it has none) no other input exceeds.
C13_HighestConfidenceVerbatim ==
    (ConsReturnedFor("highest_confidence") /\ Len(consCall.responses) >= 1) =>
        \E i \in 1..Len(consCall.responses) :
            /\ consResult.text = consCall.responses[i].text
            /\ \A j \in 1..Len(consCall.responses) :
                  FracLE(confidence_of(consCall.responses[j]), confidence_of(consCall.responses[i]))

C13_Witness ==
    /\ ConsReturnedFor("highest_confidence")
    /\ Len(consCall.responses) = 3
    /\ consCall.responses[1].text = TextA
    /\ "confidence" \in DOMAIN consCall.responses[1].metadata
    /\ consCall.responses[1].metadata["confidence"] = <<4, 5>>
    /\ consCall.responses[2].text = TextB
    /\ "confidence" \notin DOMAIN consCall.responses[3].metadata
    /\ consCall.responses[3].metadata["model"] = "gpt-4-turbo-preview"
    /\ consResult.text = TextC

\* C14: for a single response r and any strategy, known or not, the result
\* is r's text unchanged with source_count 1 and the method recorded as
\* single_response.
C14_SingleResponseUnchanged ==
    (ConsReturned /\ Len(consCall.responses) = 1) =>
        /\ consResult.text = consCall.responses[1].text
        /\ consResult.metadata["source_count"] = 1
        /\ consResult.metadata["consolidation_method"] = "single_response"

C14_Witness ==
    /\ ConsReturnedFor("borda_count")
    /\ Len(consCall.responses) = 1
    /\ consCall.responses[1].text = TextC
    /\ consResult.text = TextC
    /\ consResult.metadata["consolidation_method"] = "single_response"

\* C15: for N >= 2 responses and each of the four strategies the result has
\* a text and a metadata in which consolidation_method is the requested
\* strategy and source_count is N, whichever branch produced the text.
C15_MethodAndCountRecorded ==
    (/\ ConsReturned
     /\ Len(consCall.responses) >= 2
     /\ consCall.strategy \in {"weight_by_confidence", "majority_vote", "highest_confidence", "ensemble"}) =>
        /\ {"text", "metadata"} \subseteq DOMAIN consResult
        /\ {"consolidation_method", "source_count"} \subseteq DOMAIN consResult.metadata
        /\ consResult.metadata["consolidation_method"] = consCall.strategy
        /\ consResult.metadata["source_count"] = Len(consCall.responses)

C15_Witness ==
    /\ ConsReturnedFor("ensemble")
    /\ Len(consCall.responses) = 4
    /\ consResult.metadata["ensemble_choice"] = "weighted_majority_mix"
    /\ consResult.metadata["consolidation_method"] = "ensemble"
    /\ consResult.metadata["source_count"] = 4

\* The share of their vocabulary that two responses have in common: the
\* words of both over the words of either.
SharedVocabulary(resps) == jaccard(word_set(resps[1].text), word_set(resps[2].text))

\* C16: two responses that share less than 20% of their vocabulary make the
\* ensemble strategy report ensemble_choice = highest_confidence.
C16_DisjointGivesHighestConfidence ==
    (/\ ConsReturnedFor("ensemble")
     /\ Len(consCall.responses) = 2
     /\ FracLT(SharedVocabulary(consCall.responses), <<2, 10>>)) =>
        consResult.metadata["ensemble_choice"] = "highest_confidence"

\* C17: two responses that share more than 90% of their vocabulary make the
\* ensemble strategy report ensemble_choice = weighted and a
\* methods_agreement above 0.8.
C17_IdenticalGivesWeighted ==
    (/\ ConsReturnedFor("ensemble")
     /\ Len(consCall.responses) = 2
     /\ FracLT(<<9, 10>>, SharedVocabulary(consCall.responses))) =>
        /\ consResult.metadata["ensemble_choice"] = "weighted"
        /\ FracLT(<<8, 10>>, consResult.metadata["methods_agreement"])

\* Every entry of the metadata of a strategy's result is in the returned
\* metadata.
CarriesMetadata(built) ==
    \A key \in DOMAIN built.metadata :
        key \in DOMAIN consResult.metadata /\ consResult.metadata[key] = built.metadata[key]

\* The ensemble answer for the three methods' results and the similarity s
\* of their texts.
EnsembleAsClaimed(weighted_response, majority_response, highest_conf_response, s) ==
    /\ consResult.metadata["methods_agreement"] = s
    /\ FracLT(<<8, 10>>, s) =>
           /\ consResult.text = weighted_response.text
           /\ CarriesMetadata(weighted_response)
           /\ consResult.metadata["ensemble_choice"] = "weighted"
    /\ (FracLT(<<5, 10>>, s) /\ FracLE(s, <<8, 10>>)) =>
           /\ consResult.text =
                  create_weighted_text(<<weighted_response, majority_response>>, << <<6, 10>>, <<4, 10>> >>)
           /\ consResult.metadata["ensemble_choice"] = "weighted_majority_mix"
    /\ FracLE(s, <<5, 10>>) =>
           /\ consResult.text = highest_conf_response.text
           /\ CarriesMetadata(highest_conf_response)
           /\ consResult.metadata["ensemble_choice"] = "highest_confidence"

\* The similarity is measured on the texts of the three results.
EnsembleOfMethods(weighted_response, majority_response, highest_conf_response) ==
    EnsembleAsClaimed(weighted_response, majority_response, highest_conf_response,
                      calculate_text_similarity(
                          <<weighted_response.text, majority_response.text, highest_conf_response.text>>))

\* C23: for N >= 2 responses the ensemble strategy measures the similarity
\* s of the weighted, majority-vote and highest-confidence outputs; s > 0.8
\* gives exactly the weighted result, 0.5 < s <= 0.8 the weighted merge of
\* the weighted and majority outputs with weights 0.6 and 0.4, s <= 0.5
\* exactly the highest-confidence result; the metadata names the branch
\* and records s as methods_agreement.
C23_EnsembleFollowsSimilarity ==
    (ConsReturnedFor("ensemble") /\ Len(consCall.responses) >= 2) =>
        /\ {"ensemble_choice", "methods_agreement"} \subseteq DOMAIN consResult.metadata
        /\ EnsembleOfMethods(consolidate_by_weighting(consCall.responses),
                             consolidate_by_majority_vote(consCall.responses),
                             consolidate_by_highest_confidence(consCall.responses))

\* Three responses, the third on other words and the most confident: the
\* three methods' texts share 37/165 of their words and its text is returned.
C23_Witness ==
    /\ ConsReturnedFor("ensemble")
    /\ Len(consCall.responses) = 3
    /\ consCall.responses[1].text = TextA
    /\ consCall.responses[2].text = TextA
    /\ consCall.responses[3].text = TextB
    /\ consResult.metadata["methods_agreement"] = <<37, 165>>
    /\ consResult.metadata["ensemble_choice"] = "highest_confidence"
    /\ consResult.text = TextB

\* The weight of a response before normalisation; dividing all of them by
\* their sum keeps their order.
WeightOf(response) == FracMax(<<1, 10>>, confidence_of(response))

\* The positions of the responses no other response outweighs.
Heaviest(resps) ==
    {b \in 1..Len(resps) : \A j \in 1..Len(resps) : FracLE(WeightOf(resps[j]), WeightOf(resps[b]))}

Connectives == {" Additionally, ", " Furthermore, ", " Finally, "}

StartsWith(s, prefix) == Len(s) >= Len(prefix) /\ SubSeq(s, 1, Len(prefix)) = prefix

Drop(s, n) == SubSeq(s, n + 1, Len(s))

\* The statement shares at most 0.7 of the smaller word set with every
\* statement of the base text.
NewToBase(statement, base_text) ==
    \A base_stmt \in Range(extract_statements(base_text)) :
        FracLE(word_overlap(word_set(statement), word_set(base_stmt)), <<7, 10>>)

\* The statements of at least min_length characters of the responses at
\* the positions in sources that are new to the base text, each with the
\* weight of its response.
Appendable(resps, sources, base_text, min_length) ==
    UNION {{<<st, WeightOf(resps[j])>> :
              st \in {s \in Range(extract_statements(resps[j].text)) :
                         Len(s) >= min_length /\ NewToBase(s, base_text)}} : j \in sources}

\* rest is made of at most room appended statements, each after a
\* connective, of weights that do not rise and do not exceed ceiling.
RECURSIVE FollowsBase(_, _, _, _)
FollowsBase(rest, candidates, room, ceiling) ==
    \/ rest = ""
    \/ /\ room > 0
       /\ \E c \in candidates, phrase \in Connectives :
              /\ FracLE(c[2], ceiling)
              /\ StartsWith(rest, phrase \o c[1])
              /\ FollowsBase(Drop(rest, Len(phrase \o c[1])), candidates, room - 1, c[2])

\* text is the base text, unmodified, then at most three appended
\* statements; it is the base text alone when there is no candidate.
BaseThenAppended(text, base_text, candidates) ==
    /\ StartsWith(text, base_text)
    /\ \/ FollowsBase(Drop(text, Len(base_text)), candidates, 3, <<1, 1>>)
       \/ /\ StartsWith(Drop(text, Len(base_text)), ".")
          /\ ~str_endswith(base_text, ".")
          /\ FollowsBase(Drop(text, Len(base_text) + 1), candidates, 3, <<1, 1>>)
    /\ candidates = {} => text = base_text

BasePosition(resps) == MinOf(Heaviest(resps))

\* The statements of 20 characters and more of the responses other than
\* the base that are new to it.
AppendableToBase(resps) ==
    Appendable(resps, (1..Len(resps)) \ {BasePosition(resps)}, resps[BasePosition(resps)].text, 20)

C25_FallbackOrLongestStatements ==
    (ConsReturnedFor("majority_vote") /\ Len(consCall.responses) >= 2) =>
        IF BackedStatements(consCall.responses) = <<>>
        THEN consResult.text = consolidate(consCall.responses, "highest_confidence").text
        ELSE consResult.text = str_join(BackedStatements(consCall.responses), " ")

\* The statements of all the responses, in the order the majority vote
\* collects them.
all_statements(resps) ==
    LET collect[i \in 0..Len(resps)] ==
            IF i = 0 THEN <<>> ELSE collect[i - 1] \o extract_statements(resps[i].text)
    IN collect[Len(resps)]

\* For each of these statements, the position of the response it comes from.
statement_sources(resps) ==
    LET collect[i \in 0..Len(resps)] ==
            IF i = 0 THEN <<>>
            ELSE collect[i - 1] \o [k \in 1..Len(extract_statements(resps[i].text)) |-> i]
    IN collect[Len(resps)]

\* The clusters of cluster_similar_statements, each statement replaced by
\* the position of its response.
RECURSIVE cluster_sources(_, _)
cluster_sources(statements, sources) ==
    IF statements = <<>> THEN <<>>
    ELSE LET joins == {i \in 1..(Len(statements) - 1) : similar_statements(Head(statements), Tail(statements)[i])}
             stay == (1..(Len(statements) - 1)) \ joins
         IN << <<Head(sources)>> \o Pick(Tail(sources), joins) >>
                \o cluster_sources(Pick(Tail(statements), stay), Pick(Tail(sources), stay))

\* The responses behind each cluster that reaches the threshold of line 151.
SurvivingSources(resps) ==
    SelectSeq(cluster_sources(all_statements(resps), statement_sources(resps)),
              LAMBDA c : Len(c) >= threshold_count(Len(resps)))

\* C29: in majority_vote consolidation every statement cluster that reaches
\* the threshold holds statements of at least two distinct input responses;
\* the near-duplicate statements of one response alone never make a
\* surviving cluster.
C29_SurvivingClusterHasTwoSources ==
    (ConsReturnedFor("majority_vote") /\ Len(consCall.responses) >= 2) =>
        \A k \in 1..Len(SurvivingSources(consCall.responses)) :
            Cardinality(Range(SurvivingSources(consCall.responses)[k])) >= 2

(***************************************************************************)
(* ResponseEvaluator (response_evaluator.py).  The metric methods read     *)
(* their texts through counts: keywords and keywords shared, words,        *)
(* sentences and their lengths, paragraphs, matches of the marker          *)
(* patterns.  The operators below take these counts and compute the score  *)
(* as the method does; scores are ratios.                                  *)
(***************************************************************************)
\* The value of an Optional[float] field that holds None.
NoneScore == <<>>

Zero == <<0, 1>>

One == <<1, 1>>

Half == <<1, 2>>

\* min(max(x, 0.0), 1.0)
Clamp01(x) == FracMin(FracMax(x, Zero), One)

InUnitInterval(x) == FracLE(Zero, x) /\ FracLE(x, One)

\* sum(lengths)
RECURSIVE SumSeq(_)
SumSeq(lengths) == IF lengths = <<>> THEN 0 ELSE Head(lengths) + SumSeq(Tail(lengths))

\* Lines 462-478: 0.8 without prompt keywords, else the share of them found
\* in the response, times 1.2, clamped.
calculate_relevance(prompt_keywords, overlap) ==
    IF prompt_keywords = 0 THEN <<4, 5>>
    ELSE Clamp01(FracMul(Frac(overlap, prompt_keywords), <<6, 5>>))

\* Lines 498-510: 0.7 for an average sentence under 5 words, 0.8 over 30.
sentence_length_score(sent_lengths) ==
    LET avg_sentence_length == Frac(SumSeq(sent_lengths), IF Len(sent_lengths) > 1 THEN Len(sent_lengths) ELSE 1)
    IN IF FracLT(avg_sentence_length, <<5, 1>>) THEN <<7, 10>>
       ELSE IF FracLT(<<30, 1>>, avg_sentence_length) THEN <<8, 10>>
       ELSE One

\* Lines 480-520: 0.6, plus 0.1 for paragraphs, plus 0.04 per transition
\* word up to 0.2, times the sentence length score, clamped.
calculate_coherence(has_paragraphs, transition_count, sent_lengths) ==
    LET base_score == FracAdd(FracAdd(<<6, 10>>, IF has_paragraphs THEN <<1, 10>> ELSE Zero),
                              FracMin(<<2, 10>>, Frac(transition_count * 4, 100)))
    IN Clamp01(FracMul(base_score, sentence_length_score(sent_lengths)))

\* Lines 522-551: 0.7 without a question in the prompt; else 0.5, plus up
\* to 0.3 for the length of the response relative to the prompt, plus 0.1
\* for paragraphs, clamped.
calculate_completeness(has_questions, prompt_word_count, response_word_count, has_paragraphs) ==
    LET length_ratio == FracDiv(FracMin(Frac(response_word_count, IF prompt_word_count > 1 THEN prompt_word_count ELSE 1),
                                        <<5, 1>>), <<5, 1>>)
        with_questions == FracAdd(FracAdd(Half, FracMul(length_ratio, <<3, 10>>)),
                                  IF has_paragraphs THEN <<1, 10>> ELSE Zero)
    IN Clamp01(IF has_questions THEN with_questions ELSE <<7, 10>>)

\* Lines 578 and 581: min(count / (word_count / 100), 5) / 5
marker_density(count, word_count) == FracDiv(FracMin(Frac(count * 100, word_count), <<5, 1>>), <<5, 1>>)

\* Lines 553-614: the pair (factuality_score, hallucination_risk).
\* reference_keywords is -1 when there is no reference text.
evaluate_factuality(hallucination_count, truthfulness_count, word_count, reference_keywords, reference_overlap) ==
    IF word_count = 0 THEN <<Zero, One>>
    ELSE LET hallucination_density == marker_density(hallucination_count, word_count)
             truthfulness_density == marker_density(truthfulness_count, word_count)
             hallucination_risk ==
                 FracMax(Zero, FracMin(FracSub(hallucination_density, FracMul(truthfulness_density, Half)), One))
             factuality_score ==
                 IF reference_keywords >= 0
                 THEN IF reference_keywords > 0
                      THEN FracMin(FracMul(Frac(reference_overlap, reference_keywords), <<3, 2>>), One)
                      ELSE Half
                 ELSE FracMin(FracAdd(FracMax(<<3, 10>>, FracSub(One, FracMul(hallucination_risk, <<7, 10>>))),
                                      FracMul(truthfulness_density, <<3, 10>>)), One)
         IN <<factuality_score, hallucination_risk>>

\* Lines 628-634: the variance of the sentence lengths.
length_variance(sent_lengths) ==
    LET n == Len(sent_lengths)
        avg_length == Frac(SumSeq(sent_lengths), n)
        squares == [i \in 1..n |-> FracMul(FracSub(<<sent_lengths[i], 1>>, avg_length),
                                           FracSub(<<sent_lengths[i], 1>>, avg_length))]
    IN FracDiv(FracSum(squares), <<n, 1>>)

\* Lines 616-644: 0.5, plus up to 0.3 for length, plus up to 0.5 for the
\* variance of the sentence lengths, clamped.
calculate_creativity(word_count, sent_lengths) ==
    LET length_score == FracMul(FracMin(Frac(word_count, 200), One), <<3, 10>>)
        structure_score == IF sent_lengths # <<>>
                           THEN FracMin(FracDiv(length_variance(sent_lengths), <<100, 1>>), Half)
                           ELSE Zero
    IN Clamp01(FracAdd(FracAdd(Half, length_score), structure_score))

\* Lines 646-665: 0.7 without instruction keywords, else 0.5 plus half the
\* share of them found in the response, clamped.
evaluate_instruction_following(instruction_keywords, overlap) ==
    IF instruction_keywords = 0 THEN <<7, 10>>
    ELSE Clamp01(FracAdd(Half, FracMul(Frac(overlap, instruction_keywords), Half)))

\* Lines 26-31, 37 and 41: the weighted scores, summed.
weighted_sum(metrics) ==
    FracAdd(FracAdd(FracAdd(FracAdd(FracAdd(
        FracMul(metrics.relevance_score, <<30, 100>>),
        FracMul(metrics.coherence_score, <<25, 100>>)),
        FracMul(metrics.completeness_score, <<20, 100>>)),
        FracMul(metrics.factuality_score, <<25, 100>>)),
        IF metrics.creativity_score # NoneScore THEN FracMul(metrics.creativity_score, <<15, 100>>) ELSE Zero),
        IF metrics.instruction_following # NoneScore THEN FracMul(metrics.instruction_following, <<20, 100>>) ELSE Zero)

\* An average that divides by 1.0 whatever optional scores were added.
overall_score_fixed_divisor(metrics) == weighted_sum(metrics)

\* Lines 22-45: EvaluationMetrics.overall_score, the weighted sum over the
\* sum of the weights used.
overall_score(metrics) ==
    LET divisor == FracAdd(FracAdd(One, IF metrics.creativity_score # NoneScore THEN <<15, 100>> ELSE Zero),
                           IF metrics.instruction_following # NoneScore THEN <<20, 100>> ELSE Zero)
    IN FracDiv(weighted_sum(metrics), divisor)

\* A category map that has no 'very_poor'.
get_quality_category_lenient(score) ==
    IF FracLE(<<85, 100>>, score) THEN "excellent"
    ELSE IF FracLE(<<70, 100>>, score) THEN "good"
    ELSE IF FracLE(<<60, 100>>, score) THEN "acceptable"
    ELSE "poor"

\* Lines 93-98 and 698-709: the category of an overall score.
get_quality_category(score) ==
    IF FracLE(<<85, 100>>, score) THEN "excellent"
    ELSE IF FracLE(<<7, 10>>, score) THEN "good"
    ELSE IF FracLE(<<6, 10>>, score) THEN "acceptable"
    ELSE IF FracLE(<<4, 10>>, score) THEN "poor"
    ELSE "very_poor"

(***************************************************************************)
(* Direct calls of ResponseEvaluator.evaluate_response.  The call fixes    *)
(* what every metric sees of the response (whether its text is empty, its  *)
(* number of words) and the options; each metric method then reads its own *)
(* counts from the texts, drawn from the sample sets below.  A metric      *)
(* method may raise (a text that is not a string).                         *)
(***************************************************************************)
\* Largest number of prompt, instruction or reference keywords.
MaxKeywords == 2

\* Largest number of matches of the hallucination / truthfulness patterns.
MaxMatches == 1

\* Lines 486-495: the number of transition words looked for.
transition_word_count == 8

\* Numbers of words of a response; 0 with a text that is not empty is a text
\* of white space.
WordCounts == {0, 40}

\* Numbers of words of a prompt.
PromptWordCounts == {0, 8}

\* Numbers of distinct transition words found.
TransitionCounts == {0, transition_word_count}

\* Sentence lengths, in words, of a response.
SentenceSamples == {<<>>, <<12, 14>>, <<2, 70>>}

\* An EvaluationMetrics whose fields are not set yet.
UnsetMetrics ==
    [relevance_score |-> NoneScore, coherence_score |-> NoneScore, completeness_score |-> NoneScore,
     factuality_score |-> NoneScore, hallucination_risk |-> NoneScore,
     creativity_score |-> NoneScore, instruction_following |-> NoneScore]

\* Lines 131-137: the metrics of the empty response.
EmptyResponseMetrics ==
    [relevance_score |-> Zero, coherence_score |-> Zero, completeness_score |-> Zero,
     factuality_score |-> Zero, hallucination_risk |-> One,
     creativity_score |-> NoneScore, instruction_following |-> NoneScore]

\* Lines 227-233: the metrics of the baseline evaluation.
BaselineMetrics ==
    [relevance_score |-> Half, coherence_score |-> Half, completeness_score |-> Half,
     factuality_score |-> Half, hallucination_risk |-> Half,
     creativity_score |-> NoneScore, instruction_following |-> NoneScore]

EvalInit ==
    /\ adapters = <<>>
    /\ pc = "idle"
    /\ sel = NoSel
    /\ callArgs = NoCall
    /\ result = NoResult
    /\ req = NoRequest
    /\ idx = 0
    /\ responses = <<>>
    /\ invoked = <<>>
    /\ raisedAt = {}
    /\ outstanding = {}
    /\ maxOutstanding = 0
    /\ multiResult = NoMultiResult
    /\ stepLog = <<>>
    /\ consCall = NoConsCall
    /\ consResult = NoConsResult
    /\ evalCall = NoEvalCall
    /\ evalResult = NoEvalResult

EvalRunning(step) == evalResult.status = "running" /\ evalResult.step = step

\* The metric just computed is stored and the next step is reached;
\* `failed` keeps the metrics whose method raised.
EvalStore(field, value, next, raises) ==
    evalResult' = [evalResult EXCEPT !.metrics = [@ EXCEPT ![field] = value],
                                     !.computed = @ \cup {field},
                                     !.failed = IF raises THEN @ \cup {field} ELSE @,
                                     !.step = next]

\* Lines 100-107: evaluate_response(prompt, response, reference_texts,
\* is_creative_task, instructions) is called.  well_formed is false for a
\* response that is no dict.
EvaluateCall(well_formed, text_empty, word_count, is_creative_task, has_instructions) ==
    /\ evalCall = NoEvalCall
    /\ text_empty => word_count = 0
    /\ ~well_formed => (~text_empty /\ word_count = 0 /\ ~is_creative_task /\ ~has_instructions)
    /\ evalCall' = [op |-> "evaluate", well_formed |-> well_formed, text_empty |-> text_empty, word_count |-> word_count,
                    is_creative_task |-> is_creative_task, has_instructions |-> has_instructions]
    /\ evalResult' = [status |-> "running", step |-> "validate", metrics |-> UnsetMetrics, computed |-> {}, failed |-> {}]
    /\ UNCHANGED <<orchVars, consVars>>

\* Lines 127 and 223-239: response.get raises, the outer handler returns
\* the baseline evaluation.
EvalUnexpected ==
    /\ EvalRunning("validate")
    /\ ~evalCall.well_formed
    /\ evalResult' = [status |-> "returned", metrics |-> BaselineMetrics, overall_score |-> Half,
                      quality_category |-> "unknown", error |-> "exception", computed |-> {}, failed |-> {}]
    /\ UNCHANGED <<orchVars, consVars, evalCall>>

\* An empty text that is not answered at once: the metric steps go on.
EvalEmptyFallsThrough ==
    /\ EvalRunning("validate")
    /\ evalCall.well_formed
    /\ evalCall.text_empty
    /\ EvalStore("relevance_score", calculate_relevance(0, 0), "coherence", FALSE)
    /\ UNCHANGED <<orchVars, consVars, evalCall>>

\* Lines 127-141: an empty text is answered at once; the returned dict has
\* no overall_score.
EvalEmpty ==
    /\ EvalRunning("validate")
    /\ evalCall.well_formed
    /\ evalCall.text_empty
    /\ evalResult' = [status |-> "returned", metrics |-> EmptyResponseMetrics,
                      quality_category |-> "poor", error |-> "empty_response", computed |-> evalResult.computed,
                      failed |-> evalResult.failed]
    /\ UNCHANGED <<orchVars, consVars, evalCall>>

\* Lines 143-148
EvalRelevance(prompt_keywords, overlap, raises) ==
    /\ EvalRunning("validate")
    /\ evalCall.well_formed
    /\ ~evalCall.text_empty
    /\ overlap <= prompt_keywords
    /\ EvalStore("relevance_score", IF raises THEN Half ELSE calculate_relevance(prompt_keywords, overlap), "coherence",
                 raises)
    /\ UNCHANGED <<orchVars, consVars, evalCall>>

\* Lines 150-154
EvalCoherence(has_paragraphs, transition_count, sent_lengths, raises) ==
    /\ EvalRunning("coherence")
    /\ EvalStore("coherence_score",
                 IF raises THEN Half ELSE calculate_coherence(has_paragraphs, transition_count, sent_lengths),
                 "completeness", raises)
    /\ UNCHANGED <<orchVars, consVars, evalCall>>

\* Lines 156-160
EvalCompleteness(has_questions, prompt_word_count, has_paragraphs, raises) ==
    /\ EvalRunning("completeness")
    /\ EvalStore("completeness_score",
                 IF raises THEN Half
                 ELSE calculate_completeness(has_questions, prompt_word_count, evalCall.word_count, has_paragraphs),
                 "factuality", raises)
    /\ UNCHANGED <<orchVars, consVars, evalCall>>

\* Lines 162-169
EvalFactuality(hallucination_count, truthfulness_count, reference_keywords, reference_overlap, raises) ==
    /\ EvalRunning("factuality")
    /\ reference_overlap <= reference_keywords \/ reference_overlap = 0
    /\ LET pair == IF raises THEN <<Half, Half>>
                   ELSE evaluate_factuality(hallucination_count, truthfulness_count, evalCall.word_count,
                                            reference_keywords, reference_overlap)
       IN evalResult' = [evalResult EXCEPT !.metrics = [@ EXCEPT !["factuality_score"] = pair[1],
                                                                 !["hallucination_risk"] = pair[2]],
                                           !.computed = @ \cup {"factuality_score", "hallucination_risk"},
                                           !.failed = IF raises THEN @ \cup {"factuality_score", "hallucination_risk"}
                                                      ELSE @,
                                           !.step = "creativity"]
    /\ UNCHANGED <<orchVars, consVars, evalCall>>

\* Lines 171-178: computed for a creative task only; left None on failure.
EvalCreativity(sent_lengths, raises) ==
    /\ EvalRunning("creativity")
    /\ IF evalCall.is_creative_task
       THEN EvalStore("creativity_score",
                      IF raises THEN NoneScore ELSE calculate_creativity(evalCall.word_count, sent_lengths),
                      "instruction", raises)
       ELSE evalResult' = [evalResult EXCEPT !.step = "instruction"]
    /\ UNCHANGED <<orchVars, consVars, evalCall>>

\* Lines 180-190: computed when instructions were given; left None on
\* failure.
EvalInstruction(instruction_keywords, overlap, raises) ==
    /\ EvalRunning("instruction")
    /\ overlap <= instruction_keywords
    /\ IF evalCall.has_instructions
       THEN EvalStore("instruction_following",
                      IF raises THEN NoneScore ELSE evaluate_instruction_following(instruction_keywords, overlap),
                      "finish", raises)
       ELSE evalResult' = [evalResult EXCEPT !.step = "finish"]
    /\ UNCHANGED <<orchVars, consVars, evalCall>>

\* Lines 192-221: the metrics object, its overall score and category.
EvalFinish ==
    /\ EvalRunning("finish")
    /\ evalResult' = [status |-> "returned", metrics |-> evalResult.metrics,
                      overall_score |-> overall_score(evalResult.metrics),
                      quality_category |-> get_quality_category(overall_score(evalResult.metrics)),
                      computed |-> evalResult.computed, failed |-> evalResult.failed]
    /\ UNCHANGED <<orchVars, consVars, evalCall>>

(***************************************************************************)
(* Direct calls of ResponseEvaluator.cross_validate_responses.             *)
(***************************************************************************)
\* Lines 48-760: the methods class ResponseEvaluator defines; it has no
\* base class and no __getattr__.
ResponseEvaluatorMethods ==
    {"__init__", "evaluate_response", "cross_validate_responses", "compare_responses",
     "_calculate_relevance", "_calculate_coherence", "_calculate_completeness", "_evaluate_factuality",
     "_calculate_creativity", "_evaluate_instruction_following", "_calculate_response_agreement",
     "_get_quality_category", "_generate_feedback"}

\* Lines 260-279: fewer than two responses are answered with an error dict;
\* otherwise row 0 gets its diagonal 1.0 and the next cell looks up
\* self._calculate_text_similarity, which raises AttributeError.
cross_validate_responses(resps) ==
    CASE Len(resps) < 2 ->
             [status |-> "returned", error |-> "Need at least two responses to cross-validate"]
      [] Len(resps) >= 2 /\ "_calculate_text_similarity" \notin ResponseEvaluatorMethods ->
             [status |-> "raised", error |-> "AttributeError", rows |-> <<>>, row |-> <<One>>]

\* cross_validate_responses(prompt, responses) is called.
CrossValidateCall(resps) ==
    /\ evalCall = NoEvalCall
    /\ evalCall' = [op |-> "cross_validate", responses |-> resps]
    /\ evalResult' = [status |-> "running", step |-> "cross_validate"]
    /\ UNCHANGED <<orchVars, consVars>>

CrossValidate ==
    /\ EvalRunning("cross_validate")
    /\ evalResult' = cross_validate_responses(evalCall.responses)
    /\ UNCHANGED <<orchVars, consVars, evalCall>>

\* The caller has the result (or the exception); the evaluator keeps no
\* state between calls.
EvalReturn ==
    /\ evalResult.status \in {"returned", "raised"}
    /\ evalCall' = NoEvalCall
    /\ evalResult' = NoEvalResult
    /\ UNCHANGED <<orchVars, consVars>>

(***************************************************************************)
(* Properties of the evaluator.                                            *)
(***************************************************************************)
EvalReturned(op) == evalCall.op = op /\ evalResult.status = "returned"

MetricFields ==
    {"relevance_score", "coherence_score", "completeness_score", "factuality_score", "hallucination_risk",
     "creativity_score", "instruction_following"}

RequiredMetricFields == MetricFields \ {"creativity_score", "instruction_following"}

\* C18: in every evaluation returned by evaluate_response, the overall score
\* of the metrics (and the overall_score entry, when the result has one) is
\* in [0,1], and so is every metric: the five required ones always, and
\* creativity and instruction following when they are present.
C18_ScoresInUnitInterval ==
    EvalReturned("evaluate") =>
        /\ InUnitInterval(overall_score(evalResult.metrics))
        /\ "overall_score" \in DOMAIN evalResult => InUnitInterval(evalResult.overall_score)
        /\ \A f \in RequiredMetricFields : InUnitInterval(evalResult.metrics[f])
        /\ \A f \in MetricFields :
               evalResult.metrics[f] # NoneScore => InUnitInterval(evalResult.metrics[f])

\* An evaluation with both optional metrics whose weighted sum is over 1,
\* so that only the enlarged divisor brings the overall score back.
C18_Witness ==
    /\ EvalReturned("evaluate")
    /\ "overall_score" \in DOMAIN evalResult
    /\ evalResult.metrics.creativity_score # NoneScore
    /\ evalResult.metrics.instruction_following # NoneScore
    /\ FracLT(One, weighted_sum(evalResult.metrics))
    /\ evalResult.overall_score = overall_score(evalResult.metrics)

\* C19: evaluate_response on a response with an empty text runs no metric
\* computation, and returns relevance, coherence, completeness and
\* factuality 0, hallucination risk 1 and the category 'poor'.
C19_EmptyResponseShortCircuits ==
    (evalCall.op = "evaluate" /\ evalCall.well_formed /\ evalCall.text_empty) =>
        /\ evalResult.computed = {}
        /\ evalResult.status \in {"running", "returned"}
        /\ evalResult.status = "running" => evalResult.step = "validate"
        /\ evalResult.status = "returned" =>
               /\ evalResult.metrics.relevance_score = Zero
               /\ evalResult.metrics.coherence_score = Zero
               /\ evalResult.metrics.completeness_score = Zero
               /\ evalResult.metrics.factuality_score = Zero
               /\ evalResult.metrics.hallucination_risk = One
               /\ evalResult.quality_category = "poor"

C19_Witness ==
    /\ EvalReturned("evaluate")
    /\ evalCall.well_formed
    /\ evalCall.text_empty
    /\ evalCall.is_creative_task
    /\ evalCall.has_instructions
    /\ evalResult.error = "empty_response"

\* A matrix of n rows of n cells, symmetric, with 1 on the diagonal and
\* every cell in [0,1].
AgreementMatrixShape(matrix, n) ==
    /\ Len(matrix) = n
    /\ \A i \in 1..n : Len(matrix[i]) = n
    /\ \A i \in 1..n : matrix[i][i] = One
    /\ \A i, j \in 1..n : matrix[i][j] = matrix[j][i] /\ InUnitInterval(matrix[i][j])

\* C20: a call of cross_validate_responses with N >= 2 responses returns a
\* result whose agreement matrix is N x N, symmetric, with diagonal 1.0 and
\* every cell in [0,1].
C20_AgreementMatrixShape ==
    (/\ evalCall.op = "cross_validate"
     /\ Len(evalCall.responses) >= 2
     /\ evalResult.status # "running") =>
        /\ evalResult.status = "returned"
        /\ "agreement_matrix" \in DOMAIN evalResult
        /\ AgreementMatrixShape(evalResult.agreement_matrix, Len(evalCall.responses))

\* The texts of the responses of a call, in order.
TextsOf(resps) == [i \in 1..Len(resps) |-> resps[i].text]

\* C21: for three responses, two with the same sentence and a third on
\* other words, cross_validate_responses returns the (0-based) indices of
\* the two similar responses as consensus and the index of the third as
\* outlier.
C21_ConsensusAndOutlier ==
    (/\ evalCall.op = "cross_validate"
     /\ TextsOf(evalCall.responses) = <<TextA, TextA, TextB>>
     /\ evalResult.status # "running") =>
        /\ evalResult.status = "returned"
        /\ "consensus_response_indices" \in DOMAIN evalResult
        /\ "outlier_response_indices" \in DOMAIN evalResult
        /\ evalResult.consensus_response_indices = <<0, 1>>
        /\ evalResult.outlier_response_indices = <<2>>

\* The evaluation of a response that is a dict with a text came back.
EvalReturnedNormally ==
    /\ EvalReturned("evaluate")
    /\ evalCall.well_formed
    /\ ~evalCall.text_empty

\* C26: when metric computations fail during evaluate_response, the
\* evaluation still returns on its normal path with every failed metric
\* (relevance, coherence, completeness, factuality and hallucination risk,
\* creativity, instruction following) reported as 0.5 and every metric
\* that was computed without failure reported with a score of its own.
C26_FailedMetricIsNeutral ==
    EvalReturnedNormally =>
        /\ "overall_score" \in DOMAIN evalResult
        /\ \A f \in evalResult.failed : evalResult.metrics[f] = Half
        /\ \A f \in evalResult.computed \ evalResult.failed : InUnitInterval(evalResult.metrics[f])

\* The category the fixed thresholds give to a score.
ThresholdCategory(score) ==
    IF FracLE(<<85, 100>>, score) THEN "excellent"
    ELSE IF FracLE(<<70, 100>>, score) THEN "good"
    ELSE IF FracLE(<<60, 100>>, score) THEN "acceptable"
    ELSE IF FracLE(<<40, 100>>, score) THEN "poor"
    ELSE "very_poor"

\* C27 as stated: in every result of evaluate_response, on the normal path,
\* the empty-response path and the error path alike, quality_category is
\* the category the thresholds give to the overall score of its metrics.
C27_CategoryFollowsScoreEverywhere ==
    EvalReturned("evaluate") =>
        evalResult.quality_category = ThresholdCategory(overall_score(evalResult.metrics))

\* C27, amended: on the normal path quality_category is the category the
\* thresholds give to the returned overall score; the empty-response path
\* returns the fixed category 'poor' (its metrics score 0) and the error
\* path the fixed category 'unknown' (with the overall score 0.5).
C27_CategoryFollowsScoreOnNormalPath ==
    EvalReturned("evaluate") =>
        /\ EvalReturnedNormally =>
               /\ evalResult.overall_score = overall_score(evalResult.metrics)
               /\ evalResult.quality_category = ThresholdCategory(evalResult.overall_score)
        /\ (evalCall.well_formed /\ evalCall.text_empty) =>
               /\ evalResult.quality_category = "poor"
               /\ overall_score(evalResult.metrics) = Zero
        /\ ~evalCall.well_formed =>
               /\ evalResult.quality_category = "unknown"
               /\ evalResult.overall_score = Half

\* A normal evaluation whose score is under every threshold.
C27_Witness ==
    /\ EvalReturnedNormally
    /\ FracLT(evalResult.overall_score, <<40, 100>>)
    /\ evalResult.quality_category = "very_poor"

(***************************************************************************)
(* evaluate_response as a function, for the callers inside the class.  The *)
(* counts the metric methods read from the prompt, the references, the     *)
(* instructions and the response text come as a record of measures; the    *)
(* number of words is taken from the text.                                 *)
(***************************************************************************)
\* Lines 143-190: the metrics of a response with a text.  `fails` holds the
\* metrics whose method raises.
metrics_for(word_count, m, is_creative_task, has_instructions) ==
    [relevance_score |->
         IF "relevance_score" \in m.fails THEN Half ELSE calculate_relevance(m.prompt_keywords, m.overlap),
     coherence_score |->
         IF "coherence_score" \in m.fails THEN Half
         ELSE calculate_coherence(m.has_paragraphs, m.transition_count, m.sent_lengths),
     completeness_score |->
         IF "completeness_score" \in m.fails THEN Half
         ELSE calculate_completeness(m.has_questions, m.prompt_word_count, word_count, m.has_paragraphs),
     factuality_score |->
         IF "factuality_score" \in m.fails THEN Half
         ELSE evaluate_factuality(m.hallucination_count, m.truthfulness_count, word_count,
                                  m.reference_keywords, m.reference_overlap)[1],
     hallucination_risk |->
         IF "factuality_score" \in m.fails THEN Half
         ELSE evaluate_factuality(m.hallucination_count, m.truthfulness_count, word_count,
                                  m.reference_keywords, m.reference_overlap)[2],
     creativity_score |->
         IF is_creative_task /\ "creativity_score" \notin m.fails
         THEN calculate_creativity(word_count, m.sent_lengths) ELSE NoneScore,
     instruction_following |->
         IF has_instructions /\ "instruction_following" \notin m.fails
         THEN evaluate_instruction_following(m.instruction_keywords, m.instruction_overlap) ELSE NoneScore]

\* Lines 130-141: the dict returned for an empty text.
EmptyEvaluation ==
    [metrics |-> EmptyResponseMetrics, quality_category |-> "poor", error |-> "empty_response"]

\* Lines 192-221: the dict returned on the normal path.
NormalEvaluation(metrics) ==
    [metrics |-> metrics, overall_score |-> overall_score(metrics),
     quality_category |-> get_quality_category(overall_score(metrics))]

\* Lines 100-221: evaluate_response for a response that is a dict.
evaluate_response(text, m, is_creative_task, has_instructions) ==
    IF text = "" THEN EmptyEvaluation
    ELSE NormalEvaluation(metrics_for(Len(str_split_ws(text)), m, is_creative_task, has_instructions))

(***************************************************************************)
(* ResponseEvaluator.compare_responses.                                    *)
(***************************************************************************)
\* The characters \w matches in a lowered text.
WordChars ==
    {UpperToLower[c] : c \in DOMAIN UpperToLower} \cup
    {"0", "1", "2", "3", "4", "5", "6", "7", "8", "9", "_"}

\* A text with every character that \w does not match made a space.
RECURSIVE blank_non_word(_)
blank_non_word(s) ==
    IF s = "" THEN ""
    ELSE (IF Head(s) \in WordChars THEN Head(s) ELSE " ") \o blank_non_word(Tail(s))

\* Line 676: set(re.findall(r"\b\w{3,}\b", response.lower()))
keywords_of(text) == {w \in Range(str_split_ws(blank_non_word(str_lower(text)))) : Len(w) >= 3}

\* Lines 681-697, for the keyword sets of the responses.
agreement_of(all_keywords) ==
    IF {p \in (1..Len(all_keywords)) \X (1..Len(all_keywords)) :
           p[1] < p[2] /\ all_keywords[p[1]] # {} /\ all_keywords[p[2]] # {}} = {}
    THEN Half
    ELSE FracDiv(sum_jaccard(all_keywords,
                             {p \in (1..Len(all_keywords)) \X (1..Len(all_keywords)) :
                                 p[1] < p[2] /\ all_keywords[p[1]] # {} /\ all_keywords[p[2]] # {}}),
                 <<Cardinality({p \in (1..Len(all_keywords)) \X (1..Len(all_keywords)) :
                                   p[1] < p[2] /\ all_keywords[p[1]] # {} /\ all_keywords[p[2]] # {}}), 1>>)

\* Lines 667-697: _calculate_response_agreement
calculate_response_agreement(texts) ==
    IF Len(texts) <= 1 THEN One ELSE agreement_of(MapSeq(texts, keywords_of))

\* Lines 430-439: the cross-validation, None when it raised.
cross_validation_of(outcome) == IF outcome.status = "raised" THEN None ELSE outcome

\* Lines 421-428: the agreement of the (at most three) best texts.
agreement_score_of(ranked_texts) ==
    IF Len(ranked_texts) > 1
    THEN calculate_response_agreement(SubSeq(ranked_texts, 1, IF Len(ranked_texts) < 3 THEN Len(ranked_texts) ELSE 3))
    ELSE Zero

\* Lines 441-453: the comparison, for the evaluations in ranked order.
comparison_of(resps, ranked, scores) ==
    [status |-> "returned",
     ranked_evaluations |-> ranked,
     best_response_index |-> 0,
     best_model |-> ranked[1].model,
     best_score |-> ranked[1].evaluation.overall_score,
     score_range |-> [min |-> scores[order_desc(scores, [i \in 1..Len(scores) |-> i])[Len(scores)]],
                      max |-> scores[order_desc(scores, [i \in 1..Len(scores) |-> i])[1]],
                      avg |-> FracDiv(FracSum(scores), <<Len(scores), 1>>)],
     agreement_score |-> agreement_score_of(MapSeq(ranked, LAMBDA e : e.response.text)),
     cross_validation |-> IF Len(resps) >= 2 THEN cross_validation_of(cross_validate_responses(resps)) ELSE None]

\* Lines 414-418: sorted(evaluations, key=overall_score, reverse=True)
rank_evaluations(resps, evaluations, scores, order) ==
    comparison_of(resps, [k \in 1..Len(order) |-> evaluations[order[k]]], scores)

\* Lines 398-460: every response is evaluated; the sort key raises KeyError
\* when an evaluation has no overall_score, and the outer handler returns
\* the error dict.
compare_evaluated(resps, evaluations) ==
    IF \E k \in 1..Len(evaluations) : "overall_score" \notin DOMAIN evaluations[k].evaluation
    THEN [status |-> "returned", error |-> "Failed to compare responses: 'overall_score'",
          response_count |-> Len(resps)]
    ELSE rank_evaluations(resps, evaluations,
                          MapSeq(evaluations, LAMBDA e : e.evaluation.overall_score),
                          sorted_desc(MapSeq(evaluations, LAMBDA e : e.evaluation.overall_score)))

\* Lines 374-460: compare_responses(prompt, responses, reference_texts,
\* is_creative_task, instructions); items pair every response with the
\* measures its evaluation reads.
compare_responses(items, is_creative_task, has_instructions) ==
    IF items = <<>> THEN [status |-> "returned", error |-> "No responses to compare"]
    ELSE compare_evaluated(
             MapSeq(items, LAMBDA it : it.response),
             MapSeq(items, LAMBDA it :
                 [response |-> it.response,
                  evaluation |-> evaluate_response(it.response.text, it.measures, is_creative_task, has_instructions),
                  model |-> DictGet(it.response.metadata, "model", "unknown"),
                  provider |-> DictGet(it.response.metadata, "provider", "unknown")]))

\* Largest number of responses in one comparison.
MaxCompared == 3

\* What the metric methods read for the prompt 'q' without references and
\* instructions, and a response of one sentence of four words.
PlainMeasures ==
    [prompt_keywords |-> 0, overlap |-> 0, has_paragraphs |-> FALSE, transition_count |-> 0, sent_lengths |-> <<4>>,
     has_questions |-> FALSE, prompt_word_count |-> 1, hallucination_count |-> 0, truthfulness_count |-> 0,
     reference_keywords |-> 0 - 1, reference_overlap |-> 0, instruction_keywords |-> 0, instruction_overlap |-> 0,
     fails |-> {}]

\* The same response under a prompt of two keywords: both found, none
\* found, and one found with the factuality method raising.
MeasureSamples ==
    {PlainMeasures,
     [PlainMeasures EXCEPT !.prompt_keywords = 2, !.overlap = 2],
     [PlainMeasures EXCEPT !.prompt_keywords = 2, !.overlap = 0],
     [PlainMeasures EXCEPT !.prompt_keywords = 2, !.overlap = 1, !.fails = {"factuality_score"}]}

\* The fields of the measures that belong to the call, not to a response.
CallMeasures(m) == <<m.prompt_keywords, m.has_questions, m.prompt_word_count, m.reference_keywords, m.instruction_keywords>>

\* A response whose text is empty.
EmptyResponse == [text |-> "", metadata |-> ("model" :> "llama3:8b")]

\* The responses compared: two of the pool on different words, and the
\* empty one.
CompareResponses ==
    {r \in ResponsePool : "confidence" \in DOMAIN r.metadata} \cup {EmptyResponse}

CompareItems == [response : CompareResponses, measures : MeasureSamples]

\* compare_responses(prompt, responses, ...) is called: one prompt for
\* all the responses, and one reading of a text.
CompareCall(items, is_creative_task, has_instructions) ==
    /\ evalCall = NoEvalCall
    /\ \A i, j \in 1..Len(items) :
           /\ CallMeasures(items[i].measures) = CallMeasures(items[j].measures)
           /\ items[i].response.text = items[j].response.text => items[i].measures = items[j].measures
    /\ evalCall' = [op |-> "compare", items |-> items, is_creative_task |-> is_creative_task,
                    has_instructions |-> has_instructions]
    /\ evalResult' = [status |-> "running", step |-> "compare"]
    /\ UNCHANGED <<orchVars, consVars>>

Compare ==
    /\ EvalRunning("compare")
    /\ evalResult' = compare_responses(evalCall.items, evalCall.is_creative_task, evalCall.has_instructions)
    /\ UNCHANGED <<orchVars, consVars, evalCall>>

\* compare_responses has returned for the call in evalCall.
CompareReturned == evalCall.op = "compare" /\ evalResult.status = "returned"

\* C22: for N >= 2 responses with non-empty texts, compare_responses
\* returns the ranking together with the cross-validation result (its
\* agreement matrix, average agreements, consensus and outlier indices):
\* cross_validation is never None.
C22_CrossValidationPresent ==
    (/\ CompareReturned
     /\ Len(evalCall.items) >= 2
     /\ \A k \in 1..Len(evalCall.items) : evalCall.items[k].response.text # "") =>
        /\ "ranked_evaluations" \in DOMAIN evalResult
        /\ "cross_validation" \in DOMAIN evalResult
        /\ evalResult.cross_validation # None
        /\ {"agreement_matrix", "average_agreements", "consensus_response_indices", "outlier_response_indices"}
               \subseteq DOMAIN evalResult.cross_validation

\* C30: for N >= 1 responses, empty texts included, compare_responses
\* returns a ranking that holds every input response exactly once, in
\* non-increasing order of overall score, with best_score the greatest
\* score; no error result stands in for the ranking.
C30_RankingForEveryInput ==
    (CompareReturned /\ Len(evalCall.items) >= 1) =>
        /\ "error" \notin DOMAIN evalResult
        /\ "ranked_evaluations" \in DOMAIN evalResult
        /\ Len(evalResult.ranked_evaluations) = Len(evalCall.items)
        /\ \A r \in CompareResponses :
               Cardinality({k \in 1..Len(evalCall.items) : evalResult.ranked_evaluations[k].response = r})
                   = Cardinality({k \in 1..Len(evalCall.items) : evalCall.items[k].response = r})
        /\ \A k \in 1..(Len(evalCall.items) - 1) :
               FracLE(evalResult.ranked_evaluations[k + 1].evaluation.overall_score,
                      evalResult.ranked_evaluations[k].evaluation.overall_score)
        /\ \A k \in 1..Len(evalCall.items) :
               FracLE(evalResult.ranked_evaluations[k].evaluation.overall_score, evalResult.best_score)

EvalNext ==
    \/ \E well_formed, text_empty, is_creative_task, has_instructions \in BOOLEAN, word_count \in WordCounts :
           EvaluateCall(well_formed, text_empty, word_count, is_creative_task, has_instructions)
    \/ EvalUnexpected
    \/ EvalEmpty
    \/ \E prompt_keywords, overlap \in 0..MaxKeywords, raises \in BOOLEAN :
           EvalRelevance(prompt_keywords, overlap, raises)
    \/ \E has_paragraphs, raises \in BOOLEAN, transition_count \in TransitionCounts, sent_lengths \in SentenceSamples :
           EvalCoherence(has_paragraphs, transition_count, sent_lengths, raises)
    \/ \E has_questions, has_paragraphs, raises \in BOOLEAN, prompt_word_count \in PromptWordCounts :
           EvalCompleteness(has_questions, prompt_word_count, has_paragraphs, raises)
    \/ \E hallucination_count, truthfulness_count \in 0..MaxMatches, reference_keywords \in (0 - 1)..MaxKeywords,
          reference_overlap \in 0..MaxKeywords, raises \in BOOLEAN :
           EvalFactuality(hallucination_count, truthfulness_count, reference_keywords, reference_overlap, raises)
    \/ \E sent_lengths \in SentenceSamples, raises \in BOOLEAN : EvalCreativity(sent_lengths, raises)
    \/ \E instruction_keywords, overlap \in 0..MaxKeywords, raises \in BOOLEAN :
           EvalInstruction(instruction_keywords, overlap, raises)
    \/ EvalFinish
    \/ /\ evalCall = NoEvalCall
       /\ \E resps \in SeqsUpTo(ResponsePool, MaxResponses) : CrossValidateCall(resps)
    \/ CrossValidate
    \/ /\ evalCall = NoEvalCall
       /\ \E items \in SeqsUpTo(CompareItems, MaxCompared), is_creative_task, has_instructions \in BOOLEAN :
              CompareCall(items, is_creative_task, has_instructions)
    \/ Compare
    \/ EvalReturn

EvalSpec == EvalInit /\ [][EvalNext]_vars

(***************************************************************************)
(* Direct calls of the two lookups of a configuration,                     *)
(* get_recommended_models and get_system_prompt: the five provider         *)
(* configurations and the orchestrator's DefaultConfig.                    *)
(***************************************************************************)
\* The keys of system_prompts in each configuration.
OllamaPromptTasks == {"code_generation", "general_chat", "multilingual", "reasoning", "lightweight"}

OpenAIPromptTasks == {"code_generation", "general_chat", "creative_writing", "reasoning", "math", "analysis", "vision"}

AnthropicPromptTasks ==
    {"code_generation", "general_chat", "creative_writing", "reasoning", "math", "analysis", "complex_reasoning", "vision"}

MistralPromptTasks ==
    {"code_generation", "general_chat", "creative_writing", "reasoning", "math", "analysis", "lightweight"}

MathGPTPromptTasks == {"math", "algebra", "calculus", "statistics", "arithmetic", "general_math", "advanced_math"}

DefaultPromptTasks == {"general_chat", "creative_writing", "code", "math", "analysis"}

\* The provider configurations and DefaultConfig.
ConfigNames == Providers \cup {"default"}

system_prompt_tasks(config) ==
    CASE config = "ollama" -> OllamaPromptTasks
      [] config = "openai" -> OpenAIPromptTasks
      [] config = "anthropic" -> AnthropicPromptTasks
      [] config = "mistral" -> MistralPromptTasks
      [] config = "mathgpt" -> MathGPTPromptTasks
      [] config = "default" -> DefaultPromptTasks

task_model_tasks(config) ==
    CASE config = "ollama" -> DOMAIN OllamaTaskModels
      [] config = "openai" -> DOMAIN OpenAITaskModels
      [] config = "anthropic" -> DOMAIN AnthropicTaskModels
      [] config = "mistral" -> DOMAIN MistralTaskModels
      [] config = "mathgpt" -> DOMAIN MathGPTTaskModels
      [] config = "default" -> DOMAIN DefaultRecommendedModels

\* The text a configuration keeps under a key of system_prompts; the texts
\* of one configuration differ from key to key.
system_prompt_of(config, key) == <<config, key>>

\* get_system_prompt(task): the task's prompt, or that of general_chat
\* (general_math in MathGPTConfig) when the task has none.
get_system_prompt(config, task) ==
    IF config = "mathgpt"
    THEN IF task = "math" THEN system_prompt_of(config, "math")
         ELSE IF task \in system_prompt_tasks(config) THEN system_prompt_of(config, task)
         ELSE system_prompt_of(config, "general_math")
    ELSE IF task \in system_prompt_tasks(config) THEN system_prompt_of(config, task)
    ELSE system_prompt_of(config, "general_chat")

\* get_recommended_models(task) of a configuration.
config_recommended_models(config, task) ==
    IF config = "default" THEN default_get_recommended_models(task) ELSE get_recommended_models(config, task)

ConfigOps == {"get_recommended_models", "get_system_prompt"}

config_lookup(config, op, task) ==
    IF op = "get_recommended_models" THEN config_recommended_models(config, task)
    ELSE get_system_prompt(config, task)

\* The task types asked for: those of the orchestrator and some that only
\* some configurations have.
LookupTasks == TaskTypes \cup {"vision", "creative_writing", "general_math", "lightweight"}

ConfInit ==
    /\ adapters = <<>>
    /\ pc = "idle"
    /\ sel = NoSel
    /\ callArgs = NoCall
    /\ result = NoResult
    /\ req = NoRequest
    /\ idx = 0
    /\ responses = <<>>
    /\ invoked = <<>>
    /\ raisedAt = {}
    /\ outstanding = {}
    /\ maxOutstanding = 0
    /\ multiResult = NoMultiResult
    /\ stepLog = <<>>
    /\ consCall = NoConsCall
    /\ consResult = NoConsResult
    /\ evalCall = NoEvalCall
    /\ evalResult = NoEvalResult

\* A lookup is called on a configuration.
ConfigCall(config, op, task) ==
    /\ pc = "idle"
    /\ pc' = "lookup"
    /\ callArgs' = [op |-> op, config |-> config, task_type |-> task]
    /\ UNCHANGED <<adapters, sel, result, req, idx, responses, invoked, raisedAt, outstanding, maxOutstanding,
                   multiResult, stepLog, consVars, evalVars>>

\* The lookup returns its value.
ConfigLookup ==
    /\ pc = "lookup"
    /\ pc' = "returned"
    /\ result' = [status |-> "returned", value |-> config_lookup(callArgs.config, callArgs.op, callArgs.task_type)]
    /\ UNCHANGED <<adapters, sel, callArgs, req, idx, responses, invoked, raisedAt, outstanding, maxOutstanding,
                   multiResult, stepLog, consVars, evalVars>>

\* The caller has taken the value; a configuration keeps nothing of a call.
ConfigReturn ==
    /\ pc = "returned"
    /\ pc' = "idle"
    /\ callArgs' = NoCall
    /\ result' = NoResult
    /\ UNCHANGED <<adapters, sel, req, idx, responses, invoked, raisedAt, outstanding, maxOutstanding,
                   multiResult, stepLog, consVars, evalVars>>

ConfNext ==
    \/ \E config \in ConfigNames, op \in ConfigOps, task \in LookupTasks : ConfigCall(config, op, task)
    \/ ConfigLookup
    \/ ConfigReturn

ConfSpec == ConfInit /\ [][ConfNext]_vars

\* The configuration has no entry for the task in the dict the lookup reads.
UnknownTask(config, op, task) ==
    IF op = "get_recommended_models" THEN task \notin task_model_tasks(config)
    ELSE task \notin system_prompt_tasks(config)

\* C28: for every configuration and every task type it does not know, the
\* recommended-model list and the system prompt returned for that task
\* type equal the ones returned for the task type general_chat.
C28_UnknownTaskGetsGeneralChat ==
    (pc = "returned" /\ UnknownTask(callArgs.config, callArgs.op, callArgs.task_type)) =>
        result.value = config_lookup(callArgs.config, callArgs.op, "general_chat")

====
